---- MODULE Spec2Model ----
(***************************************************************************)
(* A model of the pen web framework: the application object (Pencil), its  *)
(* modules, and the request pipeline of Pencil::handle_request.            *)
(*                                                                         *)
(* Conventions.  A Rust Option is a sequence of length at most one         *)
(* (None == <<>>, Some(x) == <<x>>).  A Rust String that the code takes    *)
(* apart (endpoints, module names) is a sequence of one-character strings. *)
(* User supplied functions (hooks, views, error handlers) are opaque: each *)
(* is named by an identifier record, and what a call returns is an input   *)
(* chosen when the call is made.  User functions are taken not to write    *)
(* the routing fields of the request they are handed.                      *)
(***************************************************************************)
EXTENDS Naturals, Integers, Sequences, FiniteSets, TLC

VARIABLES
    phase,     \* "setup" (registration), "serving" (after run), "aborted" (a registration panicked)
    app,       \* the Pencil value
    mods,      \* the Module values not yet registered, by instance
    pc,        \* position of the request being handled inside Handler::handle
    req,       \* the Request value
    todo,      \* the hooks the running loop has still to call
    result,    \* full_dispatch_request: `result` (Option)
    rv,        \* full_dispatch_request: `rv` (Option)
    err,       \* handle_request: the error handed to teardown (Option)
    response,  \* handle_request: the response it returns (Option)
    log,       \* every call of a user function made for the request, in order
    parked,    \* the request state of the worker that is not taking the step
    input,     \* the arguments of the library call under study (Option)
    output,    \* what that call returned or wrote (Option)
    views      \* a request's lazily computed views and their use (Option)

reqvars == <<pc, req, todo, result, rv, err, response, log>>

\* what the configuration calls and the steps of one request never touch
othervars == <<parked, input, output, views>>

vars == <<phase, app, mods, reqvars, othervars>>

(***************************************************************************)
(* Bounds of the model.                                                    *)
(***************************************************************************)
\* hooks and error handlers registered in one run, over the application and its modules
MaxRegs == 3

(***************************************************************************)
(* Values.                                                                 *)
(***************************************************************************)
None == <<>>

Some(x) == <<x>>

Dot == "."

AppOwner == <<>>

\* an identifier of a user function: who registered it, in which list, and
\* its ordinal in that list (hooks), its status code (HTTP error handlers)
\* or its description key (user error handlers)
Fn(owner, kind, n, d) == [owner |-> owner, kind |-> kind, n |-> n, d |-> d]

HttpErr(code) == [tag |-> "http", code |-> code, desc |-> ""]

UserErr(desc) == [tag |-> "user", code |-> 0, desc |-> desc]

Ok(r) == [ok |-> TRUE, val |-> r]

Err(e) == [ok |-> FALSE, val |-> e]

\* a call of a user function: the stage it was made in, the function, the
\* error it was handed (Option) and what it returned (Option of a result)
Ev(stage, f, arg, ret) == [stage |-> stage, f |-> f, arg |-> arg, ret |-> ret]

\* the module instances built by the configuration code, and Module::new's name argument
ModuleIds == {"m1"}

\* the longest module name the configurations of NamesSpec build
MaxNameLen == 3

\* a second instance built under the same name, and one under another name
SetupModuleIds == {"m1", "m2", "n1"}

ModName(id) == IF id = "n1" THEN <<"n">> ELSE <<"m">>

\* the (endpoint, matcher) pairs the configuration code routes on the
\* application (one of them spelt like a module endpoint) and on a module
AppRoutes ==
    {[endpoint |-> <<"v">>, matcher |-> "/v/"],
     [endpoint |-> <<"m", Dot, "v">>, matcher |-> "/mv/"]}

ModRoutes == {[endpoint |-> <<"v">>, matcher |-> "/mv/"]}

RouteMethods == {{"GET"}}

\* the requests sent: methods and paths
Methods == {"GET", "POST", "OPTIONS"}

Paths == {"/v/", "/mv/", "/v"}

\* status codes and descriptions error handlers are registered for
HandlerCodes == {404, 500}

HandlerDescs == {"boom"}

\* the errors user functions return
RaisedCodes == {404}

RaisedDescs == {"boom"}

RaisedErrors == {HttpErr(c) : c \in RaisedCodes} \cup {UserErr(d) : d \in RaisedDescs}

(***************************************************************************)
(* Sequences.                                                              *)
(***************************************************************************)
RECURSIVE Reverse(_)
Reverse(s) == IF s = <<>> THEN <<>> ELSE Append(Reverse(Tail(s)), Head(s))

Contains(s, c) == \E i \in 1..Len(s) : s[i] = c

\* the index of the last occurrence of c in s (0 when there is none)
RECURSIVE LastIndex(_, _)
LastIndex(s, c) ==
    IF s = <<>> THEN 0
    ELSE IF s[Len(s)] = c THEN Len(s)
    ELSE LastIndex(SubSeq(s, 1, Len(s) - 1), c)

(***************************************************************************)
(* Responses (wrappers.rs, helpers.rs).                                    *)
(***************************************************************************)
\* a Response: status code, who built it, whether it has a body, the
\* Location and Allow headers (Options) and the after-request hooks that
\* were handed it, in order
Response(status, by, location) ==
    [status_code |-> status, by |-> by, has_body |-> TRUE,
     location |-> location, allow |-> None, touched |-> <<>>]

\* Response::new_empty
new_empty == [status_code |-> 200, by |-> Fn(AppOwner, "new_empty", 0, ""), has_body |-> FALSE,
              location |-> None, allow |-> None, touched |-> <<>>]

\* the response a user function f builds
UserResponse(f) == Response(200, f, None)

\* HTTPError::to_response: the default rendering of an HTTP error
to_response(e) == Response(e.code, Fn(AppOwner, "default", e.code, ""), None)

\* helpers::redirect
redirect(location, code) == Ok(Response(code, Fn(AppOwner, "redirect", code, ""), Some(location)))

(***************************************************************************)
(* Pencil: construction and registration (app.rs).                        *)
(***************************************************************************)
Pencil_new ==
    [url_map |-> {},
     modules |-> <<>>,
     view_functions |-> <<>>,
     before_request_funcs |-> <<>>,
     after_request_funcs |-> <<>>,
     teardown_request_funcs |-> <<>>,
     http_error_handlers |-> <<>>,
     user_error_handlers |-> <<>>]

\* routing::Rule::new: OPTIONS is answered automatically unless the route lists it
Rule_new(matcher, methods, endpoint) ==
    [matcher |-> matcher,
     endpoint |-> endpoint,
     methods |-> methods \cup {"OPTIONS"},
     provide_automatic_options |-> "OPTIONS" \notin methods]

\* add_url_rule adding the rule and leaving the view registry alone
add_url_rule_RuleOnly(a, matcher, methods, endpoint, view_func) ==
    [a EXCEPT !.url_map = @ \cup {Rule_new(matcher, methods, endpoint)}]

\* Pencil::add_url_rule
add_url_rule(a, matcher, methods, endpoint, view_func) ==
    [a EXCEPT !.url_map = @ \cup {Rule_new(matcher, methods, endpoint)},
              !.view_functions = (endpoint :> view_func) @@ @]

Pencil_before_request(a, f) == [a EXCEPT !.before_request_funcs = Append(@, f)]

Pencil_after_request(a, f) == [a EXCEPT !.after_request_funcs = Append(@, f)]

Pencil_teardown_request(a, f) == [a EXCEPT !.teardown_request_funcs = Append(@, f)]

register_http_error_handler(a, status_code, f) ==
    [a EXCEPT !.http_error_handlers = (status_code :> f) @@ @]

register_user_error_handler(a, error_desc, f) ==
    [a EXCEPT !.user_error_handlers = (error_desc :> f) @@ @]

(***************************************************************************)
(* Module: construction and registration (module.rs).                     *)
(***************************************************************************)
Moved == [moved |-> TRUE]

Module_new(name) ==
    [name |-> name,
     static_folder |-> None,
     static_url_path |-> None,
     before_request_funcs |-> <<>>,
     after_request_funcs |-> <<>>,
     teardown_request_funcs |-> <<>>,
     http_error_handlers |-> <<>>,
     user_error_handlers |-> <<>>,
     deferred_functions |-> <<>>,
     deferred_routes |-> <<>>]

\* Module::route without the check for a dot
Module_route_AcceptDot(m, matcher, methods, endpoint, view_func) ==
    Some([m EXCEPT !.deferred_routes =
            Append(@, [matcher |-> matcher, methods |-> methods,
                       endpoint |-> m.name \o <<Dot>> \o endpoint,
                       view_func |-> view_func])])

\* Module::route recording the endpoint as it was given
Module_route_NoPrefix(m, matcher, methods, endpoint, view_func) ==
    IF Contains(endpoint, Dot) THEN None
    ELSE Some([m EXCEPT !.deferred_routes =
                 Append(@, [matcher |-> matcher, methods |-> methods,
                            endpoint |-> endpoint,
                            view_func |-> view_func])])

\* Module::route: None when it panics on an endpoint holding a dot
Module_route(m, matcher, methods, endpoint, view_func) ==
    IF Contains(endpoint, Dot) THEN None
    ELSE Some([m EXCEPT !.deferred_routes =
                 Append(@, [matcher |-> matcher, methods |-> methods,
                            endpoint |-> m.name \o <<Dot>> \o endpoint,
                            view_func |-> view_func])])

\* one deferred function of a module, called on the application
ApplyDeferred(a, d) ==
    CASE d.op = "before_request" -> Pencil_before_request(a, d.f)
      [] d.op = "after_request" -> Pencil_after_request(a, d.f)
      [] d.op = "teardown_request" -> Pencil_teardown_request(a, d.f)
      [] d.op = "httperrorhandler" -> register_http_error_handler(a, d.f.n, d.f)
      [] d.op = "usererrorhandler" -> register_user_error_handler(a, d.f.d, d.f)

RECURSIVE AddRoutes(_, _)
AddRoutes(a, routes) ==
    IF routes = <<>> THEN a
    ELSE LET r == Head(routes)
         IN AddRoutes(add_url_rule(a, r.matcher, r.methods, r.endpoint, r.view_func), Tail(routes))

RECURSIVE ReplayDeferred(_, _)
ReplayDeferred(a, ds) ==
    IF ds = <<>> THEN a ELSE ReplayDeferred(ApplyDeferred(a, Head(ds)), Tail(ds))

\* Module::register adding the static route whenever a static URL path is set
Module_register_StaticByPath(m, a) ==
    LET static == IF m.static_url_path # None
                  THEN Module_route(m, m.static_url_path[1] \o "/<filename:path>", {"GET"},
                                    <<"s", "t", "a", "t", "i", "c">>,
                                    Fn(m.name, "send_module_static_file", 0, ""))[1]
                  ELSE m
        a1 == AddRoutes(a, static.deferred_routes)
        a2 == ReplayDeferred(a1, static.deferred_functions)
        self == [static EXCEPT !.deferred_routes = <<>>, !.deferred_functions = <<>>]
    IN [a2 EXCEPT !.modules = (m.name :> self) @@ @]

\* Module::register taking the deferred functions from the end of the list
Module_register_PopOrder(m, a) ==
    LET static == IF m.static_folder # None /\ m.static_url_path # None
                  THEN Module_route(m, m.static_url_path[1] \o "/<filename:path>", {"GET"},
                                    <<"s", "t", "a", "t", "i", "c">>,
                                    Fn(m.name, "send_module_static_file", 0, ""))[1]
                  ELSE m
        a1 == AddRoutes(a, static.deferred_routes)
        a2 == ReplayDeferred(a1, Reverse(static.deferred_functions))
        self == [static EXCEPT !.deferred_routes = <<>>, !.deferred_functions = <<>>]
    IN [a2 EXCEPT !.modules = (m.name :> self) @@ @]

\* Module::register past the name check: the application it leaves
Module_register(m, a) ==
    LET static == IF m.static_folder # None /\ m.static_url_path # None
                  THEN Module_route(m, m.static_url_path[1] \o "/<filename:path>", {"GET"},
                                    <<"s", "t", "a", "t", "i", "c">>,
                                    Fn(m.name, "send_module_static_file", 0, ""))[1]
                  ELSE m
        a1 == AddRoutes(a, static.deferred_routes)
        a2 == ReplayDeferred(a1, static.deferred_functions)
        self == [static EXCEPT !.deferred_routes = <<>>, !.deferred_functions = <<>>]
    IN [a2 EXCEPT !.modules = (m.name :> self) @@ @]

(***************************************************************************)
(* Request (wrappers.rs).                                                  *)
(***************************************************************************)
\* Request::new starting from a not-found routing error
Request_new_DefaultError(method, path) ==
    [method |-> method, path |-> path,
     url_rule |-> None, routing_redirect |-> None, routing_error |-> Some(HttpErr(404))]

\* Request::new: the request of an accepted HTTP request
Request_new(method, path) ==
    [method |-> method, path |-> path,
     url_rule |-> None, routing_redirect |-> None, routing_error |-> None]

\* routing::Map::bind(...).matched(): the outcomes for a path and a method.
\* A path that is a rule's matcher matches it when the method is allowed and
\* is a 405 otherwise; a path one trailing slash short of a matcher is
\* redirected to it; any other path is a 404.
Bind(url_map, path, method) ==
    LET hits == {r \in url_map : r.matcher = path}
        allowed == {r \in hits : method \in r.methods}
        near == {r \in url_map : r.matcher = path \o "/"}
    IN IF allowed # {} THEN {[kind |-> "rule", rule |-> r] : r \in allowed}
       ELSE IF hits # {} THEN {[kind |-> "error", error |-> HttpErr(405)]}
       ELSE IF near # {} THEN {[kind |-> "redirect", url |-> r.matcher, code |-> 301] : r \in near}
       ELSE {[kind |-> "error", error |-> HttpErr(404)]}

\* match_request with the routing error arm storing nothing
match_request_DropError(r, outcome) ==
    CASE outcome.kind = "rule" -> [r EXCEPT !.url_rule = Some(outcome.rule)]
      [] outcome.kind = "redirect" ->
            [r EXCEPT !.routing_redirect = Some([url |-> outcome.url, code |-> outcome.code])]
      [] outcome.kind = "error" -> r

\* Request::match_request: the request with the outcome stored
match_request(r, outcome) ==
    CASE outcome.kind = "rule" -> [r EXCEPT !.url_rule = Some(outcome.rule)]
      [] outcome.kind = "redirect" ->
            [r EXCEPT !.routing_redirect = Some([url |-> outcome.url, code |-> outcome.code])]
      [] outcome.kind = "error" -> [r EXCEPT !.routing_error = Some(outcome.error)]

\* Request::endpoint
endpoint(r) == IF r.url_rule # None THEN Some(r.url_rule[1].endpoint) ELSE None

\* Request::module_name cutting the endpoint at its first dot
module_name_FirstDot(r) ==
    LET e == endpoint(r)
    IN IF e # None /\ Contains(e[1], Dot)
       THEN Some(SubSeq(e[1], 1, (CHOOSE i \in 1..Len(e[1]) :
                                     e[1][i] = Dot /\ \A j \in 1..(i - 1) : e[1][j] # Dot) - 1))
       ELSE None

\* Request::module_name: what precedes the last dot of the endpoint
module_name(r) ==
    LET e == endpoint(r)
    IN IF e # None /\ Contains(e[1], Dot)
       THEN Some(SubSeq(e[1], 1, LastIndex(e[1], Dot) - 1))
       ELSE None

(***************************************************************************)
(* Pencil: the request pipeline (app.rs).                                  *)
(***************************************************************************)
\* what a before-request hook, a view function, an error handler may return
BeforeResults(f) ==
    {None, Some(Ok(UserResponse(f)))} \cup {Some(Err(e)) : e \in RaisedErrors}

ViewResults(f) == {Ok(UserResponse(f))} \cup {Err(e) : e \in RaisedErrors}

HandlerResults(f) == {Ok(UserResponse(f))} \cup {Err(e) : e \in RaisedErrors}

\* Pencil::get_module
get_module(a, name) ==
    IF name # None /\ name[1] \in DOMAIN a.modules THEN Some(a.modules[name[1]]) ELSE None

\* preprocess_request with the two loops exchanged
preprocess_request_AppFirst(a, r) ==
    LET m == get_module(a, module_name(r))
    IN a.before_request_funcs \o (IF m # None THEN m[1].before_request_funcs ELSE <<>>)

\* Pencil::preprocess_request: the hooks in the order the two loops visit them
preprocess_request(a, r) ==
    LET m == get_module(a, module_name(r))
    IN (IF m # None THEN m[1].before_request_funcs ELSE <<>>) \o a.before_request_funcs

\* process_response iterating without rev()
process_response_Forward(a, r) ==
    LET m == get_module(a, module_name(r))
    IN (IF m # None THEN m[1].after_request_funcs ELSE <<>>) \o a.after_request_funcs

\* Pencil::process_response: the hooks in the order the two loops visit them
process_response(a, r) ==
    LET m == get_module(a, module_name(r))
    IN (IF m # None THEN Reverse(m[1].after_request_funcs) ELSE <<>>)
       \o Reverse(a.after_request_funcs)

\* Pencil::do_teardown_request: the hooks in the order the two loops visit them
do_teardown_request(a, r) ==
    LET m == get_module(a, module_name(r))
    IN (IF m # None THEN Reverse(m[1].teardown_request_funcs) ELSE <<>>)
       \o Reverse(a.teardown_request_funcs)

\* routing::MapAdapter::allowed_methods: the methods of the rules the path matches
allowed_methods(a, r) == UNION {x.methods : x \in {y \in a.url_map : y.matcher = r.path}}

\* make_default_options_response not looking at the rule's flag
make_default_options_response_AnyRule(a, r) ==
    IF r.url_rule # None
    THEN IF r.method = "OPTIONS"
         THEN Some([new_empty EXCEPT !.allow = Some(allowed_methods(a, r))])
         ELSE None
    ELSE None

\* Pencil::make_default_options_response
make_default_options_response(a, r) ==
    IF r.url_rule # None
    THEN IF r.url_rule[1].provide_automatic_options /\ r.method = "OPTIONS"
         THEN Some([new_empty EXCEPT !.allow = Some(allowed_methods(a, r))])
         ELSE None
    ELSE None

\* a panic of the request's thread, as a result value
Panic == [ok |-> FALSE, val |-> [tag |-> "panic", code |-> 0, desc |-> "unwrap"]]

\* The outcomes of a step that may call one user function: the value the
\* step yields and the calls it made.
Outcome(v, calls) == [val |-> v, calls |-> calls]

\* dispatch_request without the automatic OPTIONS arm
dispatch_request_NoOptions(a, r) ==
    IF r.routing_error # None THEN {Outcome(Err(r.routing_error[1]), <<>>)}
    ELSE IF r.routing_redirect # None
    THEN {Outcome(redirect(r.routing_redirect[1].url, r.routing_redirect[1].code), <<>>)}
    ELSE IF endpoint(r) = None THEN {Outcome(Panic, <<>>)}
    ELSE IF endpoint(r)[1] \in DOMAIN a.view_functions
    THEN LET view_func == a.view_functions[endpoint(r)[1]]
         IN {Outcome(x, <<Ev("dispatch", view_func, None, Some(x))>>) : x \in ViewResults(view_func)}
    ELSE {Outcome(Err(HttpErr(404)), <<>>)}

\* Pencil::dispatch_request.  Outcome "panic" stands for the unwrap of an
\* absent endpoint.
dispatch_request(a, r) ==
    IF r.routing_error # None THEN {Outcome(Err(r.routing_error[1]), <<>>)}
    ELSE IF r.routing_redirect # None
    THEN {Outcome(redirect(r.routing_redirect[1].url, r.routing_redirect[1].code), <<>>)}
    ELSE IF make_default_options_response(a, r) # None
    THEN {Outcome(Ok(make_default_options_response(a, r)[1]), <<>>)}
    ELSE IF endpoint(r) = None THEN {Outcome(Panic, <<>>)}
    ELSE IF endpoint(r)[1] \in DOMAIN a.view_functions
    THEN LET view_func == a.view_functions[endpoint(r)[1]]
         IN {Outcome(x, <<Ev("dispatch", view_func, None, Some(x))>>) : x \in ViewResults(view_func)}
    ELSE {Outcome(Err(HttpErr(404)), <<>>)}

\* Pencil::handle_user_error
handle_user_error(a, r, e, stage) ==
    LET m == get_module(a, module_name(r))
        call(h) == {Outcome(x, <<Ev(stage, h, Some(e), Some(x))>>) : x \in HandlerResults(h)}
    IN IF m # None /\ e.desc \in DOMAIN m[1].user_error_handlers
       THEN call(m[1].user_error_handlers[e.desc])
       ELSE IF e.desc \in DOMAIN a.user_error_handlers
       THEN call(a.user_error_handlers[e.desc])
       ELSE {Outcome(Err(e), <<>>)}

\* handle_http_error looking in the application's map before the module's
handle_http_error_AppFirst(a, r, e, stage) ==
    LET m == get_module(a, module_name(r))
        call(h) == {Outcome(x, <<Ev(stage, h, Some(e), Some(x))>>) : x \in HandlerResults(h)}
    IN IF e.code \in DOMAIN a.http_error_handlers
       THEN call(a.http_error_handlers[e.code])
       ELSE IF m # None /\ e.code \in DOMAIN m[1].http_error_handlers
       THEN call(m[1].http_error_handlers[e.code])
       ELSE {Outcome(Ok(to_response(e)), <<>>)}

\* handle_http_error passing an unhandled error on, as handle_user_error does
handle_http_error_NoDefault(a, r, e, stage) ==
    LET m == get_module(a, module_name(r))
        call(h) == {Outcome(x, <<Ev(stage, h, Some(e), Some(x))>>) : x \in HandlerResults(h)}
    IN IF m # None /\ e.code \in DOMAIN m[1].http_error_handlers
       THEN call(m[1].http_error_handlers[e.code])
       ELSE IF e.code \in DOMAIN a.http_error_handlers
       THEN call(a.http_error_handlers[e.code])
       ELSE {Outcome(Err(e), <<>>)}

\* Pencil::handle_http_error
handle_http_error(a, r, e, stage) ==
    LET m == get_module(a, module_name(r))
        call(h) == {Outcome(x, <<Ev(stage, h, Some(e), Some(x))>>) : x \in HandlerResults(h)}
    IN IF m # None /\ e.code \in DOMAIN m[1].http_error_handlers
       THEN call(m[1].http_error_handlers[e.code])
       ELSE IF e.code \in DOMAIN a.http_error_handlers
       THEN call(a.http_error_handlers[e.code])
       ELSE {Outcome(Ok(to_response(e)), <<>>)}

\* handle_all_error sending an unhandled user error on to the status-code
\* handlers, as a 500
handle_all_error_Fallback500(a, r, e) ==
    IF e.tag = "http" THEN handle_http_error(a, r, e, "recover")
    ELSE IF \E o \in handle_user_error(a, r, e, "recover") : o.calls # <<>>
    THEN handle_user_error(a, r, e, "recover")
    ELSE {Outcome(IF o.calls = <<>> THEN Err(e) ELSE o.val, o.calls)
             : o \in handle_http_error(a, r, HttpErr(500), "recover")}

\* Pencil::handle_all_error
handle_all_error(a, r, e) ==
    IF e.tag = "http" THEN handle_http_error(a, r, e, "recover")
    ELSE handle_user_error(a, r, e, "recover")

\* Pencil::log_error, as a call recorded in the log
log_error(e) == Ev("toplevel", Fn(AppOwner, "log_error", 0, ""), Some(e), None)

\* handle_error answering the bare 500 without looking for a handler
handle_error_Bare(a, r, e) == {Outcome(to_response(HttpErr(500)), <<log_error(e)>>)}

\* Pencil::handle_error
handle_error(a, r, e) ==
    {Outcome(IF o.val.ok THEN o.val.val ELSE to_response(HttpErr(500)),
             <<log_error(e)>> \o o.calls)
        : o \in handle_http_error(a, r, HttpErr(500), "toplevel")}

(***************************************************************************)
(* Registration actions: the configuration code, before run.               *)
(***************************************************************************)
Regs(x) ==
    Len(x.before_request_funcs) + Len(x.after_request_funcs) + Len(x.teardown_request_funcs)
    + Cardinality(DOMAIN x.http_error_handlers) + Cardinality(DOMAIN x.user_error_handlers)

\* a module instance, wherever it is now
ModuleOf(id) == IF mods[id] = Moved THEN app.modules[ModName(id)] ELSE mods[id]

RECURSIVE ModRegs(_)
ModRegs(ids) ==
    IF ids = {} THEN 0
    ELSE LET id == CHOOSE x \in ids : TRUE
         IN Regs(ModuleOf(id)) + Len(ModuleOf(id).deferred_functions) + ModRegs(ids \ {id})

RegCount == Regs(app) + ModRegs(DOMAIN mods)

Module_before_request(m, f) == [m EXCEPT !.before_request_funcs = Append(@, f)]

Module_after_request(m, f) == [m EXCEPT !.after_request_funcs = Append(@, f)]

Module_teardown_request(m, f) == [m EXCEPT !.teardown_request_funcs = Append(@, f)]

Module_httperrorhandler(m, status_code, f) ==
    [m EXCEPT !.http_error_handlers = (status_code :> f) @@ @]

Module_usererrorhandler(m, error_desc, f) ==
    [m EXCEPT !.user_error_handlers = (error_desc :> f) @@ @]

\* Module::record
Module_record(m, d) == [m EXCEPT !.deferred_functions = Append(@, d)]

Module_before_app_request(m, f) == Module_record(m, [op |-> "before_request", f |-> f])

Module_after_app_request(m, f) == Module_record(m, [op |-> "after_request", f |-> f])

Module_teardown_app_request(m, f) == Module_record(m, [op |-> "teardown_request", f |-> f])

Module_app_httperrorhandler(m, status_code, f) ==
    Module_record(m, [op |-> "httperrorhandler", f |-> f])

Module_app_usererrorhandler(m, error_desc, f) ==
    Module_record(m, [op |-> "usererrorhandler", f |-> f])

AppRoute ==
    /\ phase = "setup"
    /\ \E rt \in AppRoutes, ms \in RouteMethods :
          app' = add_url_rule(app, rt.matcher, ms, rt.endpoint, Fn(AppOwner, "view", 0, rt.matcher))
    /\ UNCHANGED <<phase, mods, reqvars, othervars>>

AppBeforeRequest ==
    /\ phase = "setup" /\ RegCount < MaxRegs
    /\ app' = Pencil_before_request(app,
                 Fn(AppOwner, "before", Len(app.before_request_funcs) + 1, ""))
    /\ UNCHANGED <<phase, mods, reqvars, othervars>>

AppAfterRequest ==
    /\ phase = "setup" /\ RegCount < MaxRegs
    /\ app' = Pencil_after_request(app,
                 Fn(AppOwner, "after", Len(app.after_request_funcs) + 1, ""))
    /\ UNCHANGED <<phase, mods, reqvars, othervars>>

AppTeardownRequest ==
    /\ phase = "setup" /\ RegCount < MaxRegs
    /\ app' = Pencil_teardown_request(app,
                 Fn(AppOwner, "teardown", Len(app.teardown_request_funcs) + 1, ""))
    /\ UNCHANGED <<phase, mods, reqvars, othervars>>

AppHttpErrorHandler ==
    /\ phase = "setup" /\ RegCount < MaxRegs
    /\ \E c \in HandlerCodes \ DOMAIN app.http_error_handlers :
          app' = register_http_error_handler(app, c, Fn(AppOwner, "http", c, ""))
    /\ UNCHANGED <<phase, mods, reqvars, othervars>>

AppUserErrorHandler ==
    /\ phase = "setup" /\ RegCount < MaxRegs
    /\ \E d \in HandlerDescs \ DOMAIN app.user_error_handlers :
          app' = register_user_error_handler(app, d, Fn(AppOwner, "user", 0, d))
    /\ UNCHANGED <<phase, mods, reqvars, othervars>>

ModRoute ==
    /\ phase = "setup"
    /\ \E id \in DOMAIN mods, rt \in ModRoutes, ms \in RouteMethods :
          /\ mods[id] # Moved
          /\ \A i \in 1..Len(mods[id].deferred_routes) :
                mods[id].deferred_routes[i].matcher # rt.matcher
          /\ LET m == Module_route(mods[id], rt.matcher, ms, rt.endpoint,
                                   Fn(mods[id].name, "view", 0, rt.matcher))
             IN IF m = None
                THEN phase' = "aborted" /\ UNCHANGED mods
                ELSE mods' = [mods EXCEPT ![id] = m[1]] /\ UNCHANGED phase
    /\ UNCHANGED <<app, reqvars, othervars>>

ModBeforeRequest ==
    /\ phase = "setup" /\ RegCount < MaxRegs
    /\ \E id \in DOMAIN mods :
          /\ mods[id] # Moved
          /\ mods' = [mods EXCEPT ![id] = Module_before_request(@,
                         Fn(@.name, "before", Len(@.before_request_funcs) + 1, ""))]
    /\ UNCHANGED <<phase, app, reqvars, othervars>>

ModAfterRequest ==
    /\ phase = "setup" /\ RegCount < MaxRegs
    /\ \E id \in DOMAIN mods :
          /\ mods[id] # Moved
          /\ mods' = [mods EXCEPT ![id] = Module_after_request(@,
                         Fn(@.name, "after", Len(@.after_request_funcs) + 1, ""))]
    /\ UNCHANGED <<phase, app, reqvars, othervars>>

ModTeardownRequest ==
    /\ phase = "setup" /\ RegCount < MaxRegs
    /\ \E id \in DOMAIN mods :
          /\ mods[id] # Moved
          /\ mods' = [mods EXCEPT ![id] = Module_teardown_request(@,
                         Fn(@.name, "teardown", Len(@.teardown_request_funcs) + 1, ""))]
    /\ UNCHANGED <<phase, app, reqvars, othervars>>

ModHttpErrorHandler ==
    /\ phase = "setup" /\ RegCount < MaxRegs
    /\ \E id \in DOMAIN mods :
          /\ mods[id] # Moved
          /\ \E c \in HandlerCodes \ DOMAIN mods[id].http_error_handlers :
                mods' = [mods EXCEPT ![id] =
                            Module_httperrorhandler(@, c, Fn(@.name, "http", c, ""))]
    /\ UNCHANGED <<phase, app, reqvars, othervars>>

ModUserErrorHandler ==
    /\ phase = "setup" /\ RegCount < MaxRegs
    /\ \E id \in DOMAIN mods :
          /\ mods[id] # Moved
          /\ \E d \in HandlerDescs \ DOMAIN mods[id].user_error_handlers :
                mods' = [mods EXCEPT ![id] =
                            Module_usererrorhandler(@, d, Fn(@.name, "user", 0, d))]
    /\ UNCHANGED <<phase, app, reqvars, othervars>>

\* Module::register applying the deferred routes and functions before the
\* check of the name
RegisterModule_ApplyFirst ==
    /\ phase = "setup"
    /\ \E id \in DOMAIN mods :
          /\ mods[id] # Moved
          /\ IF mods[id].name \in DOMAIN app.modules
             THEN /\ phase' = "aborted"
                  /\ app' = [Module_register(mods[id], app) EXCEPT !.modules = app.modules]
                  /\ UNCHANGED mods
             ELSE /\ app' = Module_register(mods[id], app)
                  /\ mods' = [mods EXCEPT ![id] = Moved]
                  /\ UNCHANGED phase
    /\ UNCHANGED <<reqvars, othervars>>

\* Module::register without the check of the name
RegisterModule_Overwrite ==
    /\ phase = "setup"
    /\ \E id \in DOMAIN mods :
          /\ mods[id] # Moved
          /\ app' = Module_register(mods[id], app)
          /\ mods' = [mods EXCEPT ![id] = Moved]
          /\ UNCHANGED phase
    /\ UNCHANGED <<reqvars, othervars>>

\* Pencil::register_module / Module::register
RegisterModule ==
    /\ phase = "setup"
    /\ \E id \in DOMAIN mods :
          /\ mods[id] # Moved
          /\ IF mods[id].name \in DOMAIN app.modules
             THEN phase' = "aborted" /\ UNCHANGED <<app, mods>>
             ELSE /\ app' = Module_register(mods[id], app)
                  /\ mods' = [mods EXCEPT ![id] = Moved]
                  /\ UNCHANGED phase
    /\ UNCHANGED <<reqvars, othervars>>

\* Pencil::run: the application is handed to the server
Run ==
    /\ phase = "setup"
    /\ phase' = "serving"
    /\ UNCHANGED <<app, mods, reqvars, othervars>>

(***************************************************************************)
(* Handling one request: Handler::handle and Pencil::handle_request.       *)
(***************************************************************************)
UriForms == {"AbsolutePath", "AbsoluteUri", "Authority", "Star"}

\* Handler::handle going on with the pipeline after its 400 answer
NewRequest_Continue ==
    /\ phase = "serving" /\ pc = "idle"
    /\ \E host \in BOOLEAN, uri \in UriForms, method \in Methods, path \in Paths :
          /\ pc' = "new"
          /\ req' = Some(Request_new(method, path))
          /\ IF ~host \/ uri \in {"Authority", "Star"}
             THEN response' = Some(Response(400, Fn(AppOwner, "bad_request", 0, ""), None))
             ELSE UNCHANGED response
    /\ UNCHANGED <<othervars, phase, app, mods, todo, result, rv, err, log>>

\* Handler::handle entered: Request::new, and the 400 answer when it fails
NewRequest ==
    /\ phase = "serving" /\ pc = "idle"
    /\ \E host \in BOOLEAN, uri \in UriForms, method \in Methods, path \in Paths :
          IF ~host \/ uri \in {"Authority", "Star"}
          THEN /\ pc' = "rejected"
               /\ response' = Some(Response(400, Fn(AppOwner, "bad_request", 0, ""), None))
               /\ UNCHANGED req
          ELSE /\ pc' = "new"
               /\ req' = Some(Request_new(method, path))
               /\ UNCHANGED response
    /\ UNCHANGED <<othervars, phase, app, mods, todo, result, rv, err, log>>

\* handle_request: match_request, then full_dispatch_request enters preprocess_request
MatchRequest ==
    /\ pc = "new"
    /\ \E outcome \in Bind(app.url_map, req[1].path, req[1].method) :
          LET r == match_request(req[1], outcome)
          IN /\ req' = Some(r)
             /\ todo' = preprocess_request(app, r)
    /\ pc' = "preprocess"
    /\ UNCHANGED <<othervars, phase, app, mods, result, rv, err, response, log>>

\* full_dispatch_request once `result` is known: an Ok goes to
\* process_response, an Err to handle_all_error
SetResult(res) ==
    /\ result' = Some(res)
    /\ IF res.ok
       THEN rv' = Some(res) /\ pc' = "postprocess" /\ todo' = process_response(app, req[1])
       ELSE IF res.val.tag = "panic"
       THEN pc' = "panicked" /\ UNCHANGED <<rv, todo>>
       ELSE pc' = "recover" /\ todo' = <<>> /\ UNCHANGED rv

\* preprocess_request taking each hook it calls off the application's list
PreprocessStep_Drain ==
    /\ pc = "preprocess" /\ todo # <<>>
    /\ \E x \in BeforeResults(Head(todo)) :
          /\ log' = Append(log, Ev("preprocess", Head(todo), None, x))
          /\ IF x = None
             THEN todo' = Tail(todo) /\ UNCHANGED <<pc, result, rv>>
             ELSE SetResult(x[1])
    /\ app' = [app EXCEPT !.before_request_funcs = SelectSeq(@, LAMBDA f : f # Head(todo))]
    /\ UNCHANGED <<othervars, phase, mods, req, err, response>>

\* full_dispatch_request returning a before-request hook's error as it is,
\* without handle_all_error
PreprocessStep_ErrOut ==
    /\ pc = "preprocess" /\ todo # <<>>
    /\ \E x \in BeforeResults(Head(todo)) :
          /\ log' = Append(log, Ev("preprocess", Head(todo), None, x))
          /\ IF x = None
             THEN todo' = Tail(todo) /\ UNCHANGED <<pc, result, rv>>
             ELSE IF x[1].ok
             THEN SetResult(x[1])
             ELSE result' = x /\ rv' = x /\ pc' = "toplevel" /\ todo' = <<>>
    /\ UNCHANGED <<othervars, phase, app, mods, req, err, response>>

\* preprocess_request: one before-request hook is called
PreprocessStep ==
    /\ pc = "preprocess" /\ todo # <<>>
    /\ \E x \in BeforeResults(Head(todo)) :
          /\ log' = Append(log, Ev("preprocess", Head(todo), None, x))
          /\ IF x = None
             THEN todo' = Tail(todo) /\ UNCHANGED <<pc, result, rv>>
             ELSE SetResult(x[1])
    /\ UNCHANGED <<othervars, phase, app, mods, req, err, response>>

\* full_dispatch_request calling dispatch_request while before-request hooks are left
Dispatch_Early ==
    /\ pc = "preprocess"
    /\ \E o \in dispatch_request(app, req[1]) :
          /\ log' = log \o o.calls
          /\ SetResult(o.val)
    /\ UNCHANGED <<othervars, phase, app, mods, req, err, response>>

\* preprocess_request returned None: dispatch_request
Dispatch ==
    /\ pc = "preprocess" /\ todo = <<>>
    /\ \E o \in dispatch_request(app, req[1]) :
          /\ log' = log \o o.calls
          /\ SetResult(o.val)
    /\ UNCHANGED <<othervars, phase, app, mods, req, err, response>>

\* handle_all_error resolving again the error a handler returned
HandleAllError_Reenter ==
    /\ pc = "recover"
    /\ \E o \in handle_all_error(app, req[1], result[1].val) :
          /\ log' = log \o o.calls
          /\ IF o.val.ok
             THEN /\ rv' = Some(o.val) /\ pc' = "postprocess"
                  /\ todo' = process_response(app, req[1]) /\ UNCHANGED result
             ELSE IF o.calls # <<>> /\ log = <<>>
             THEN result' = Some(o.val) /\ UNCHANGED <<pc, rv, todo>>
             ELSE rv' = Some(o.val) /\ pc' = "toplevel" /\ todo' = <<>> /\ UNCHANGED result
    /\ UNCHANGED <<othervars, phase, app, mods, req, err, response>>

\* full_dispatch_request returning the response of error recovery without
\* process_response
HandleAllError_SkipHooks ==
    /\ pc = "recover"
    /\ \E o \in handle_all_error(app, req[1], result[1].val) :
          /\ log' = log \o o.calls
          /\ rv' = Some(o.val)
          /\ IF o.val.ok
             THEN pc' = "postprocess" /\ todo' = <<>>
             ELSE pc' = "toplevel" /\ todo' = <<>>
    /\ UNCHANGED result
    /\ UNCHANGED <<othervars, phase, app, mods, req, err, response>>

\* full_dispatch_request: handle_all_error on an Err result
HandleAllError ==
    /\ pc = "recover"
    /\ \E o \in handle_all_error(app, req[1], result[1].val) :
          /\ log' = log \o o.calls
          /\ rv' = Some(o.val)
          /\ IF o.val.ok
             THEN pc' = "postprocess" /\ todo' = process_response(app, req[1])
             ELSE pc' = "toplevel" /\ todo' = <<>>
    /\ UNCHANGED result
    /\ UNCHANGED <<othervars, phase, app, mods, req, err, response>>

\* process_response: one after-request hook is called on the response
ProcessResponseStep ==
    /\ pc = "postprocess" /\ todo # <<>>
    /\ log' = Append(log, Ev("postprocess", Head(todo), None, None))
    /\ rv' = Some(Ok([rv[1].val EXCEPT !.touched = Append(@, Head(todo))]))
    /\ todo' = Tail(todo)
    /\ UNCHANGED <<othervars, phase, app, mods, pc, req, result, err, response>>

\* full_dispatch_request returns Ok(response): handle_request enters do_teardown_request(None)
DispatchOk ==
    /\ pc = "postprocess" /\ todo = <<>>
    /\ response' = Some(rv[1].val)
    /\ err' = None
    /\ pc' = "teardown"
    /\ todo' = do_teardown_request(app, req[1])
    /\ UNCHANGED <<othervars, phase, app, mods, req, result, rv, log>>

\* handle_request returning from the Err arm without do_teardown_request
HandleError_NoTeardown ==
    /\ pc = "toplevel"
    /\ \E o \in handle_error(app, req[1], rv[1].val) :
          /\ log' = log \o o.calls
          /\ response' = Some(o.val)
    /\ err' = Some(rv[1].val)
    /\ pc' = "done"
    /\ todo' = <<>>
    /\ UNCHANGED <<othervars, phase, app, mods, req, result, rv>>

\* full_dispatch_request returns Err(e): handle_error, then do_teardown_request(Some(e))
HandleError ==
    /\ pc = "toplevel"
    /\ \E o \in handle_error(app, req[1], rv[1].val) :
          /\ log' = log \o o.calls
          /\ response' = Some(o.val)
    /\ err' = Some(rv[1].val)
    /\ pc' = "teardown"
    /\ todo' = do_teardown_request(app, req[1])
    /\ UNCHANGED <<othervars, phase, app, mods, req, result, rv>>

\* do_teardown_request calling the hook with no error, whatever the pipeline ended with
TeardownStep_NoError ==
    /\ pc = "teardown" /\ todo # <<>>
    /\ log' = Append(log, Ev("teardown", Head(todo), None, None))
    /\ todo' = Tail(todo)
    /\ UNCHANGED <<othervars, phase, app, mods, pc, req, result, rv, err, response>>

\* do_teardown_request: one teardown hook is called
TeardownStep ==
    /\ pc = "teardown" /\ todo # <<>>
    /\ log' = Append(log, Ev("teardown", Head(todo), err, None))
    /\ todo' = Tail(todo)
    /\ UNCHANGED <<othervars, phase, app, mods, pc, req, result, rv, err, response>>

\* handle_request returns the response
Return ==
    /\ pc = "teardown" /\ todo = <<>>
    /\ pc' = "done"
    /\ UNCHANGED <<othervars, phase, app, mods, req, todo, result, rv, err, response, log>>

(***************************************************************************)
(* Worker threads (serving.rs): every worker runs Handler::handle on the   *)
(* one application it shares with the others; what a request owns are the  *)
(* locals of that call.                                                    *)
(***************************************************************************)
\* the locals of one call of Handler::handle
Worker(p, rq, td, rs, r, e, resp, lg) ==
    [pc |-> p, req |-> rq, todo |-> td, result |-> rs, rv |-> r, err |-> e,
     response |-> resp, log |-> lg]

\* a worker waiting for a request
Idle == Worker("idle", None, <<>>, None, None, None, None, <<>>)

\* the worker taking the steps
Current == Worker(pc, req, todo, result, rv, err, response, log)

\* handle_threads: the other worker is the one to take the next steps
Switch ==
    /\ phase = "serving"
    /\ parked' = Current
    /\ pc' = parked.pc
    /\ req' = parked.req
    /\ todo' = parked.todo
    /\ result' = parked.result
    /\ rv' = parked.rv
    /\ err' = parked.err
    /\ response' = parked.response
    /\ log' = parked.log
    /\ UNCHANGED <<phase, app, mods, input, output, views>>

(***************************************************************************)
(* The specification.                                                      *)
(***************************************************************************)
Init ==
    /\ phase = "setup"
    /\ app = Pencil_new
    /\ mods = [id \in ModuleIds |-> Module_new(ModName(id))]
    /\ pc = "idle"
    /\ req = None
    /\ todo = <<>>
    /\ result = None
    /\ rv = None
    /\ err = None
    /\ response = None
    /\ log = <<>>
    /\ parked = Idle
    /\ input = None
    /\ output = None
    /\ views = None

Next ==
    \/ AppRoute
    \/ AppBeforeRequest
    \/ AppAfterRequest
    \/ AppTeardownRequest
    \/ AppHttpErrorHandler
    \/ AppUserErrorHandler
    \/ ModRoute
    \/ ModBeforeRequest
    \/ ModAfterRequest
    \/ ModTeardownRequest
    \/ ModHttpErrorHandler
    \/ ModUserErrorHandler
    \/ RegisterModule
    \/ Run
    \/ NewRequest
    \/ MatchRequest
    \/ PreprocessStep
    \/ Dispatch
    \/ HandleAllError
    \/ ProcessResponseStep
    \/ DispatchOk
    \/ HandleError
    \/ TeardownStep
    \/ Return

Spec == Init /\ [][Next]_vars

(***************************************************************************)
(* Configuration in detail: routes of several shapes, several module       *)
(* instances, static files.                                                *)
(***************************************************************************)
\* route calls and static settings made in one run
MaxSetup == 3

\* the routes the configuration code puts on the application: two under one
\* endpoint (one of them listing OPTIONS itself), one spelt like a module endpoint
SetupAppRoutes ==
    {[endpoint |-> <<"v">>, matcher |-> "/v/", methods |-> {"GET"}],
     [endpoint |-> <<"v">>, matcher |-> "/v", methods |-> {"GET", "OPTIONS"}],
     [endpoint |-> <<"m", Dot, "v">>, matcher |-> "/mv/", methods |-> {"POST"}]}

\* the routes it puts on a module: two under one endpoint, and one with a
\* dot in the endpoint
SetupModRoutes ==
    {[endpoint |-> <<"v">>, matcher |-> "/mv/", methods |-> {"GET"}],
     [endpoint |-> <<"w">>, matcher |-> "/v/", methods |-> {"GET"}],
     [endpoint |-> <<"w">>, matcher |-> "/v", methods |-> {"POST"}],
     [endpoint |-> <<"a", Dot, "b">>, matcher |-> "/mv/", methods |-> {"GET"}]}

StaticSet(m) ==
    (IF m.static_folder # None THEN 1 ELSE 0) + (IF m.static_url_path # None THEN 1 ELSE 0)

RECURSIVE SetupModOps(_)
SetupModOps(ids) ==
    IF ids = {} THEN 0
    ELSE LET id == CHOOSE x \in ids : TRUE
         IN (IF mods[id] = Moved THEN 0
             ELSE Len(mods[id].deferred_routes) + StaticSet(mods[id]))
            + SetupModOps(ids \ {id})

SetupOps == Cardinality(app.url_map) + SetupModOps(DOMAIN mods)

\* Pencil::route
SetupAppRoute ==
    /\ phase = "setup" /\ SetupOps < MaxSetup
    /\ \E rt \in SetupAppRoutes :
          app' = add_url_rule(app, rt.matcher, rt.methods, rt.endpoint,
                              Fn(AppOwner, "view", 0, rt.matcher))
    /\ UNCHANGED <<phase, mods, reqvars, othervars>>

\* Module::route
SetupModRoute ==
    /\ phase = "setup" /\ SetupOps < MaxSetup
    /\ \E id \in DOMAIN mods, rt \in SetupModRoutes :
          /\ mods[id] # Moved
          /\ LET m == Module_route(mods[id], rt.matcher, rt.methods, rt.endpoint,
                                   Fn(mods[id].name, "view", 0, rt.matcher))
             IN IF m = None
                THEN phase' = "aborted" /\ UNCHANGED mods
                ELSE mods' = [mods EXCEPT ![id] = m[1]] /\ UNCHANGED phase
    /\ UNCHANGED <<app, reqvars, othervars>>

\* the configuration code sets the module's static_folder field
ModStaticFolder ==
    /\ phase = "setup" /\ SetupOps < MaxSetup
    /\ \E id \in DOMAIN mods :
          /\ mods[id] # Moved /\ mods[id].static_folder = None
          /\ mods' = [mods EXCEPT ![id].static_folder = Some("static")]
    /\ UNCHANGED <<phase, app, reqvars, othervars>>

\* the configuration code sets the module's static_url_path field
ModStaticUrlPath ==
    /\ phase = "setup" /\ SetupOps < MaxSetup
    /\ \E id \in DOMAIN mods :
          /\ mods[id] # Moved /\ mods[id].static_url_path = None
          /\ mods' = [mods EXCEPT ![id].static_url_path = Some("/static")]
    /\ UNCHANGED <<phase, app, reqvars, othervars>>

SetupInit ==
    /\ phase = "setup"
    /\ app = Pencil_new
    /\ mods = [id \in SetupModuleIds |-> Module_new(ModName(id))]
    /\ pc = "idle"
    /\ req = None
    /\ todo = <<>>
    /\ result = None
    /\ rv = None
    /\ err = None
    /\ response = None
    /\ log = <<>>
    /\ parked = Idle
    /\ input = None
    /\ output = None
    /\ views = None

SetupNext ==
    \/ SetupAppRoute
    \/ SetupModRoute
    \/ ModStaticFolder
    \/ ModStaticUrlPath
    \/ RegisterModule
    \/ Run

SetupSpec == SetupInit /\ [][SetupNext]_vars

(***************************************************************************)
(* Routing: the routes of the detailed configuration on the application    *)
(* and on one module, served without hooks.                                *)
(***************************************************************************)
RoutesNext ==
    \/ SetupAppRoute
    \/ SetupModRoute
    \/ RegisterModule
    \/ Run
    \/ NewRequest
    \/ MatchRequest
    \/ Dispatch
    \/ HandleAllError
    \/ DispatchOk
    \/ HandleError
    \/ Return

RoutesSpec == Init /\ [][RoutesNext]_vars

(***************************************************************************)
(* Module scope: the routes of the detailed configuration, one module with *)
(* its own hooks and error handlers, and the whole pipeline.               *)
(***************************************************************************)
ScopeNext ==
    \/ SetupAppRoute
    \/ SetupModRoute
    \/ ModBeforeRequest
    \/ ModAfterRequest
    \/ ModTeardownRequest
    \/ ModHttpErrorHandler
    \/ ModUserErrorHandler
    \/ RegisterModule
    \/ Run
    \/ NewRequest
    \/ MatchRequest
    \/ PreprocessStep
    \/ Dispatch
    \/ HandleAllError
    \/ ProcessResponseStep
    \/ DispatchOk
    \/ HandleError
    \/ TeardownStep
    \/ Return

ScopeSpec == Init /\ [][ScopeNext]_vars

(***************************************************************************)
(* Application-scoped registrations made on a module.  A recorded function *)
(* is named by its module, its kind and its ordinal among the module's     *)
(* recordings (its status code or description for an error handler).       *)
(***************************************************************************)
ModBeforeAppRequest ==
    /\ phase = "setup" /\ RegCount < MaxRegs
    /\ \E id \in DOMAIN mods :
          /\ mods[id] # Moved
          /\ mods' = [mods EXCEPT ![id] = Module_before_app_request(@,
                         Fn(@.name, "before_app", Len(@.deferred_functions) + 1, ""))]
    /\ UNCHANGED <<phase, app, reqvars, othervars>>

ModAfterAppRequest ==
    /\ phase = "setup" /\ RegCount < MaxRegs
    /\ \E id \in DOMAIN mods :
          /\ mods[id] # Moved
          /\ mods' = [mods EXCEPT ![id] = Module_after_app_request(@,
                         Fn(@.name, "after_app", Len(@.deferred_functions) + 1, ""))]
    /\ UNCHANGED <<phase, app, reqvars, othervars>>

ModTeardownAppRequest ==
    /\ phase = "setup" /\ RegCount < MaxRegs
    /\ \E id \in DOMAIN mods :
          /\ mods[id] # Moved
          /\ mods' = [mods EXCEPT ![id] = Module_teardown_app_request(@,
                         Fn(@.name, "teardown_app", Len(@.deferred_functions) + 1, ""))]
    /\ UNCHANGED <<phase, app, reqvars, othervars>>

ModAppHttpErrorHandler ==
    /\ phase = "setup" /\ RegCount < MaxRegs
    /\ \E id \in DOMAIN mods :
          /\ mods[id] # Moved
          /\ \E c \in HandlerCodes :
                /\ \A i \in 1..Len(mods[id].deferred_functions) :
                      mods[id].deferred_functions[i].f # Fn(mods[id].name, "http_app", c, "")
                /\ mods' = [mods EXCEPT ![id] =
                               Module_app_httperrorhandler(@, c, Fn(@.name, "http_app", c, ""))]
    /\ UNCHANGED <<phase, app, reqvars, othervars>>

ModAppUserErrorHandler ==
    /\ phase = "setup" /\ RegCount < MaxRegs
    /\ \E id \in DOMAIN mods :
          /\ mods[id] # Moved
          /\ \E d \in HandlerDescs :
                /\ \A i \in 1..Len(mods[id].deferred_functions) :
                      mods[id].deferred_functions[i].f # Fn(mods[id].name, "user_app", 0, d)
                /\ mods' = [mods EXCEPT ![id] =
                               Module_app_usererrorhandler(@, d, Fn(@.name, "user_app", 0, d))]
    /\ UNCHANGED <<phase, app, reqvars, othervars>>

DeferredNext ==
    \/ AppRoute
    \/ AppBeforeRequest
    \/ AppAfterRequest
    \/ AppTeardownRequest
    \/ AppHttpErrorHandler
    \/ ModBeforeAppRequest
    \/ ModAfterAppRequest
    \/ ModTeardownAppRequest
    \/ ModAppHttpErrorHandler
    \/ ModAppUserErrorHandler
    \/ RegisterModule
    \/ Run
    \/ NewRequest
    \/ MatchRequest
    \/ PreprocessStep
    \/ Dispatch
    \/ HandleAllError
    \/ ProcessResponseStep
    \/ DispatchOk
    \/ HandleError
    \/ TeardownStep
    \/ Return

DeferredSpec == Init /\ [][DeferredNext]_vars

(***************************************************************************)
(* What the properties below speak of.                                     *)
(***************************************************************************)
\* the calls logged in one stage
Calls(stage) == SelectSeq(log, LAMBDA e : e.stage = stage)

\* the calls of functions of one kind logged in one stage
CallsOf(stage, kind) == SelectSeq(log, LAMBDA e : e.stage = stage /\ e.f.kind = kind)

\* the routing outcome is stored
Bound == pc \notin {"idle", "new", "rejected"}

\* The owning module of the request: the registered module whose name is the
\* namespace prefix of the matched endpoint, that is, the module named n
\* when the endpoint reads n, a dot, and a dot-free rest (AppOwner when
\* there is none, or no rule is matched).
Namespaced(n, ep) ==
    /\ Len(ep) > Len(n)
    /\ SubSeq(ep, 1, Len(n)) = n
    /\ ep[Len(n) + 1] = Dot
    /\ \A i \in (Len(n) + 2)..Len(ep) : ep[i] # Dot

OwnerName ==
    IF req # None /\ req[1].url_rule # None
       /\ \E n \in DOMAIN app.modules : Namespaced(n, req[1].url_rule[1].endpoint)
    THEN CHOOSE n \in DOMAIN app.modules : Namespaced(n, req[1].url_rule[1].endpoint)
    ELSE AppOwner

HasOwner == OwnerName # AppOwner /\ OwnerName \in DOMAIN app.modules

\* how many hooks the owning module registered in a list
OwnerBefore == IF HasOwner THEN Len(app.modules[OwnerName].before_request_funcs) ELSE 0

OwnerAfter == IF HasOwner THEN Len(app.modules[OwnerName].after_request_funcs) ELSE 0

OwnerTeardown == IF HasOwner THEN Len(app.modules[OwnerName].teardown_request_funcs) ELSE 0

OwnerHttpCodes == IF HasOwner THEN DOMAIN app.modules[OwnerName].http_error_handlers ELSE {}

OwnerUserDescs == IF HasOwner THEN DOMAIN app.modules[OwnerName].user_error_handlers ELSE {}

\* the i-th call of a stage that visits k module hooks, then n application
\* hooks, each list in registration order / in reverse registration order
InOrder(kind, k, n, i) ==
    IF i <= k THEN Fn(OwnerName, kind, i, "") ELSE Fn(AppOwner, kind, i - k, "")

InReverse(kind, k, n, i) ==
    IF i <= k THEN Fn(OwnerName, kind, k - i + 1, "") ELSE Fn(AppOwner, kind, n - (i - k) + 1, "")

\* a before-request hook returned a result
ShortCircuited == \E i \in 1..Len(log) : log[i].stage = "preprocess" /\ log[i].ret # None

\* preprocess/dispatch ended in an error, and error recovery is over
Recovered == pc \in {"postprocess", "toplevel", "teardown", "done"} /\ result # None /\ ~result[1].ok

\* the handler error recovery is to call for error e (Option): the owning
\* module's when it registered one under e's key, else the application's
ExpectedHandler(e) ==
    IF e.tag = "http"
    THEN IF e.code \in OwnerHttpCodes THEN Some(Fn(OwnerName, "http", e.code, ""))
         ELSE IF e.code \in DOMAIN app.http_error_handlers THEN Some(Fn(AppOwner, "http", e.code, ""))
         ELSE None
    ELSE IF e.desc \in OwnerUserDescs THEN Some(Fn(OwnerName, "user", 0, e.desc))
         ELSE IF e.desc \in DOMAIN app.user_error_handlers THEN Some(Fn(AppOwner, "user", 0, e.desc))
         ELSE None

(***************************************************************************)
(* C1.  Preprocessing calls the owning module's before-request hooks in    *)
(* registration order, then the application's in registration order; the   *)
(* first hook that returns a result ends preprocessing: no later           *)
(* before-request hook and no view function is called, and that result is  *)
(* the pipeline's result.  When no hook returns a result, every hook is    *)
(* called before dispatch.                                                 *)
(***************************************************************************)
C1_BeforeRequestOrder ==
    Bound =>
      LET B == Calls("preprocess")
          k == OwnerBefore
          n == Len(app.before_request_funcs)
      IN /\ Len(B) <= k + n
         /\ B = SubSeq(log, 1, Len(B))
         /\ \A i \in 1..Len(B) : B[i].f = InOrder("before", k, n, i)
         /\ \A i \in 1..(Len(B) - 1) : B[i].ret = None
         /\ ShortCircuited =>
               /\ result = B[Len(B)].ret
               /\ Calls("dispatch") = <<>>
               /\ pc # "preprocess"
         /\ (pc # "preprocess" /\ ~ShortCircuited) => Len(B) = k + n

\* a module hook returned nothing, then the application's second hook
\* returned a result, and the request is answered
C1_Witness ==
    /\ pc = "done"
    /\ OwnerBefore = 1
    /\ Len(app.before_request_funcs) = 2
    /\ Len(Calls("preprocess")) = 3
    /\ ShortCircuited

(***************************************************************************)
(* C2.  When the pipeline yields a response, the after-request hooks are   *)
(* called as: the owning module's in reverse registration order, then the  *)
(* application's in reverse registration order; the teardown hooks are     *)
(* called in the same module-then-application, reverse-registration order. *)
(***************************************************************************)
C2_AfterAndTeardownOrder ==
    /\ (pc \in {"teardown", "done"} /\ rv # None /\ rv[1].ok) =>
          LET A == Calls("postprocess")
              k == OwnerAfter
              n == Len(app.after_request_funcs)
          IN /\ Len(A) = k + n
             /\ \A i \in 1..Len(A) : A[i].f = InReverse("after", k, n, i)
             /\ rv[1].val.touched = [i \in 1..Len(A) |-> A[i].f]
    /\ pc = "done" =>
          LET T == Calls("teardown")
              k == OwnerTeardown
              n == Len(app.teardown_request_funcs)
          IN /\ Len(T) = k + n
             /\ \A i \in 1..Len(T) : T[i].f = InReverse("teardown", k, n, i)

\* two after-request hooks of the module and one of the application ran
C2_Witness ==
    /\ pc = "done"
    /\ rv # None /\ rv[1].ok
    /\ OwnerAfter = 2
    /\ Len(app.after_request_funcs) = 1
    /\ Len(Calls("postprocess")) = 3

(***************************************************************************)
(* C3.  Teardown always runs: when handle_request returns, with a response *)
(* or after an unhandled error, every teardown hook of the owning module   *)
(* and of the application has been called exactly once, each after the     *)
(* response to return was determined and after every other call, and the   *)
(* response returned is the one determined before teardown.                *)
(***************************************************************************)
C3_TeardownCalls ==
    /\ pc = "done" =>
          LET T == Calls("teardown")
          IN /\ response # None
             /\ \A j \in 1..OwnerTeardown :
                   Cardinality({i \in 1..Len(T) : T[i].f = Fn(OwnerName, "teardown", j, "")}) = 1
             /\ \A j \in 1..Len(app.teardown_request_funcs) :
                   Cardinality({i \in 1..Len(T) : T[i].f = Fn(AppOwner, "teardown", j, "")}) = 1
             /\ Len(T) = OwnerTeardown + Len(app.teardown_request_funcs)
    /\ \A i \in 1..Len(log) :
          log[i].stage = "teardown" =>
             /\ response # None
             /\ \A j \in i..Len(log) : log[j].stage = "teardown"

C3_ResponseKept == pc \in {"teardown", "done"} => response' = response

C3_TeardownAlwaysRuns == [](C3_TeardownCalls) /\ [][C3_ResponseKept]_vars

\* an unhandled error, with a teardown hook of the module and one of the application
C3_Witness ==
    /\ pc = "done"
    /\ err # None
    /\ OwnerTeardown = 1
    /\ Len(app.teardown_request_funcs) = 1
    /\ Len(Calls("teardown")) = 2

(***************************************************************************)
(* C4.  Error resolution tries the module before the application: for an   *)
(* HTTP error of code c on a module endpoint, when the owning module has a *)
(* handler for c that handler is called and the application's is not; the  *)
(* application's handler is called only when the module has none.  The     *)
(* same holds for user errors and their description.                       *)
(***************************************************************************)
C4_ModuleBeforeApplication ==
    Recovered =>
      LET e == result[1].val
          H == Calls("recover")
      IN /\ ExpectedHandler(e) # None => (Len(H) = 1 /\ H[1].f = ExpectedHandler(e)[1])
         /\ \A i \in 1..Len(H) :
               H[i].f.owner = AppOwner =>
                  IF e.tag = "http" THEN e.code \notin OwnerHttpCodes
                  ELSE e.desc \notin OwnerUserDescs

\* module and application both have a handler for 404, and the module's was called
C4_Witness ==
    /\ Recovered
    /\ result[1].val = HttpErr(404)
    /\ 404 \in OwnerHttpCodes
    /\ 404 \in DOMAIN app.http_error_handlers
    /\ Len(Calls("recover")) = 1
    /\ Calls("recover")[1].f.owner = OwnerName

(***************************************************************************)
(* C5.  Error recovery consults only the handlers of the error's own kind: *)
(* an HTTP error calls no user-error handler, a user error calls no        *)
(* status-code handler, and the handler called is the one registered under *)
(* the error's own code or description.                                    *)
(***************************************************************************)
C5_OwnKindOnly ==
    \A i \in 1..Len(log) :
       log[i].stage = "recover" =>
          /\ result # None /\ ~result[1].ok
          /\ log[i].arg = Some(result[1].val)
          /\ log[i].f.kind = result[1].val.tag
          /\ log[i].f.n = result[1].val.code
          /\ log[i].f.d = result[1].val.desc

\* a user error with no user-error handler while a 500 handler is registered
C5_Witness ==
    /\ pc = "done"
    /\ result # None /\ ~result[1].ok /\ result[1].val.tag = "user"
    /\ ExpectedHandler(result[1].val) = None
    /\ 500 \in DOMAIN app.http_error_handlers
    /\ Calls("recover") = <<>>

(***************************************************************************)
(* C6.  An error returned by an error handler does not re-enter            *)
(* resolution: no handler is looked up for it, and it is the pipeline's    *)
(* final error, the one handed to the top-level failure handling and to    *)
(* teardown.                                                               *)
(***************************************************************************)
C6_NoReentry ==
    LET H == Calls("recover")
    IN /\ Len(H) <= 1
       /\ (Len(H) = 1 /\ ~H[1].ret[1].ok /\ pc # "recover") =>
             LET x == H[1].ret[1].val
             IN /\ rv = Some(Err(x))
                /\ pc \in {"toplevel", "teardown", "done"}
                /\ pc \in {"teardown", "done"} =>
                      /\ err = Some(x)
                      /\ log_error(x) \in {log[i] : i \in 1..Len(log)}
                      /\ \A i \in 1..Len(log) :
                            log[i].f.kind \in {"log_error", "teardown"} => log[i].arg = Some(x)

\* the module's 404 handler returned a 404 again, the application has a 404 handler too
C6_Witness ==
    /\ pc = "done"
    /\ Len(Calls("recover")) = 1
    /\ Calls("recover")[1].f = Fn(OwnerName, "http", 404, "")
    /\ HasOwner
    /\ Calls("recover")[1].ret = Some(Err(HttpErr(404)))
    /\ 404 \in DOMAIN app.http_error_handlers
    /\ Len(Calls("teardown")) > 0

(***************************************************************************)
(* C7.  An HTTP error of code c for which neither the owning module nor    *)
(* the application has a handler becomes the response of status c, its     *)
(* default rendering: it is never an unhandled error and the answer is     *)
(* never a 500 put in its place.                                           *)
(***************************************************************************)
C7_DefaultRendering ==
    (Recovered /\ result[1].val.tag = "http" /\ ExpectedHandler(result[1].val) = None) =>
       /\ Calls("recover") = <<>>
       /\ rv # None /\ rv[1].ok
       /\ rv[1].val.status_code = result[1].val.code
       /\ rv[1].val.by = Fn(AppOwner, "default", result[1].val.code, "")
       /\ pc # "toplevel"
       /\ pc \in {"teardown", "done"} =>
             /\ response = Some(rv[1].val)
             /\ err = None
             /\ Calls("toplevel") = <<>>

\* a 405 routing error answered by its default rendering
C7_Witness ==
    /\ pc = "done"
    /\ result = Some(Err(HttpErr(405)))
    /\ response # None /\ response[1].status_code = 405
    /\ 500 \in DOMAIN app.http_error_handlers

(***************************************************************************)
(* C8.  A user error with no handler under its description, in the owning  *)
(* module or the application, ends the pipeline as an unhandled error; the *)
(* response is then what the handler registered for 500 returns (owning    *)
(* module first, then application), and the bare 500 response when there   *)
(* is no such handler or when it returns an error.                         *)
(***************************************************************************)
C8_UnhandledUserError ==
    (Recovered /\ result[1].val.tag = "user" /\ ExpectedHandler(result[1].val) = None) =>
       /\ rv = Some(Err(result[1].val))
       /\ Calls("postprocess") = <<>>
       /\ pc \in {"teardown", "done"} =>
             LET h == ExpectedHandler(HttpErr(500))
                 H == CallsOf("toplevel", "http")
                 r == response[1]
                 bare == /\ r.status_code = 500
                         /\ r.by = Fn(AppOwner, "default", 500, "")
                         /\ r.touched = <<>>
             IN /\ err = Some(result[1].val)
                /\ response # None
                /\ IF h = None THEN H = <<>> /\ bare
                   ELSE /\ Len(H) = 1
                        /\ H[1].f = h[1]
                        /\ H[1].arg = Some(HttpErr(500))
                        /\ IF H[1].ret[1].ok THEN r = H[1].ret[1].val ELSE bare

\* the module's 500 handler answered an unhandled user error although the
\* application has a 500 handler too
C8_Witness ==
    /\ pc = "done"
    /\ result # None /\ ~result[1].ok /\ result[1].val.tag = "user"
    /\ ExpectedHandler(result[1].val) = None
    /\ 500 \in OwnerHttpCodes
    /\ 500 \in DOMAIN app.http_error_handlers
    /\ response # None /\ response[1].by = Fn(OwnerName, "http", 500, "")

(***************************************************************************)
(* C9.  handle_request always ends with exactly one response: whatever the *)
(* routing outcome and whatever hooks, views and handlers return, no step  *)
(* panics on a missing value (the endpoint lookup of dispatch is reached   *)
(* only with a matched rule), an unfinished request always has a next      *)
(* step, every step advances the pipeline, and the response, once          *)
(* determined, is the one returned.                                        *)
(***************************************************************************)
RequestStep ==
    \/ MatchRequest \/ PreprocessStep \/ Dispatch \/ HandleAllError \/ ProcessResponseStep
    \/ DispatchOk \/ HandleError \/ TeardownStep \/ Return

Rank(p) ==
    CASE p = "idle" -> 0 [] p = "new" -> 1 [] p = "preprocess" -> 2 [] p = "recover" -> 3
      [] p = "postprocess" -> 4 [] p = "toplevel" -> 5 [] p = "teardown" -> 6
      [] p = "done" -> 7 [] p = "rejected" -> 7 [] p = "panicked" -> 7

C9_NeverStuck ==
    /\ pc # "panicked"
    /\ pc \in {"new", "preprocess", "recover", "postprocess", "toplevel", "teardown"}
          => ENABLED RequestStep
    /\ pc = "done" => response # None
    /\ Calls("dispatch") # <<>> => req[1].url_rule # None

C9_Advances ==
    /\ pc' # pc => Rank(pc') > Rank(pc)
    /\ (pc' = pc /\ reqvars' # reqvars) => Len(todo') < Len(todo)
    /\ response # None => response' = response

C9_AlwaysOneResponse == [](C9_NeverStuck) /\ [][C9_Advances]_vars

\* a request with a routing error was answered after three calls of user functions
C9_Witness ==
    /\ pc = "done"
    /\ req[1].routing_error # None
    /\ response # None
    /\ Len(log) >= 3

\* so was a redirected request, and one whose view and error handler both returned an error
C9_WitnessRedirect ==
    /\ pc = "done"
    /\ req[1].routing_redirect # None
    /\ response # None

C9_WitnessErrors ==
    /\ pc = "done"
    /\ Len(Calls("dispatch")) = 1
    /\ ~Calls("dispatch")[1].ret[1].ok
    /\ Len(Calls("recover")) = 1
    /\ ~Calls("recover")[1].ret[1].ok
    /\ response # None

(***************************************************************************)
(* C10.  A view function is called at most once per request, and only when *)
(* no before-request hook returned a result, a rule is matched and the     *)
(* request is not answered by automatic OPTIONS.  On a routing error       *)
(* dispatch yields that HTTP error, on a redirect it yields a redirect     *)
(* response with the given code and target, and in both no view is called. *)
(***************************************************************************)
C10_ViewCalls ==
    LET V == Calls("dispatch")
        r == req[1]
    IN /\ Len(V) <= 1
       /\ V # <<>> =>
             /\ ~ShortCircuited
             /\ r.url_rule # None
             /\ r.routing_error = None /\ r.routing_redirect = None
             /\ ~(r.url_rule[1].provide_automatic_options /\ r.method = "OPTIONS")
             /\ V[1].f.kind = "view"
       /\ (Bound /\ pc # "preprocess" /\ ~ShortCircuited /\ r.routing_error # None) =>
             /\ result = Some(Err(r.routing_error[1]))
             /\ V = <<>>
       /\ (Bound /\ pc # "preprocess" /\ ~ShortCircuited /\ r.routing_redirect # None) =>
             /\ result # None /\ result[1].ok
             /\ result[1].val.status_code = r.routing_redirect[1].code
             /\ result[1].val.location = Some(r.routing_redirect[1].url)
             /\ V = <<>>

\* the module's view was called once, after two before-request hooks returned nothing
C10_Witness ==
    /\ pc = "done"
    /\ HasOwner
    /\ Len(Calls("preprocess")) = 2
    /\ Len(Calls("dispatch")) = 1
    /\ Calls("dispatch")[1].f.owner = OwnerName
    /\ Calls("preprocess")[1].f.owner = OwnerName

\* an OPTIONS request on a rule with automatic OPTIONS was answered without the view
C10_WitnessOptions ==
    /\ pc = "done"
    /\ req[1].url_rule # None
    /\ req[1].method = "OPTIONS"
    /\ HasOwner
    /\ Calls("dispatch") = <<>>
    /\ ~ShortCircuited
    /\ Len(Calls("preprocess")) > 0

\* a 405 routing error went through dispatch, and a redirect did
C10_Witness405 ==
    /\ pc = "done"
    /\ req[1].routing_error = Some(HttpErr(405))
    /\ ~ShortCircuited
    /\ Len(Calls("preprocess")) > 0

(***************************************************************************)
(* C11.  When the matched rule provides automatic OPTIONS and the method   *)
(* is OPTIONS, dispatch yields an empty response of status 200 whose Allow *)
(* header holds the methods allowed on the path (those of the matched rule *)
(* among them) and calls no view function.  For any other method, or a     *)
(* rule that does not provide automatic OPTIONS, dispatch yields no such   *)
(* response.                                                               *)
(***************************************************************************)
AutoOptions ==
    /\ req # None /\ req[1].url_rule # None
    /\ req[1].url_rule[1].provide_automatic_options
    /\ req[1].method = "OPTIONS"

Dispatched == Bound /\ pc # "preprocess" /\ ~ShortCircuited

C11_AutomaticOptions ==
    Dispatched =>
       IF AutoOptions
       THEN /\ result # None /\ result[1].ok
            /\ result[1].val.status_code = 200
            /\ ~result[1].val.has_body
            /\ result[1].val.allow # None
            /\ req[1].url_rule[1].methods \subseteq result[1].val.allow[1]
            /\ \A x \in result[1].val.allow[1] :
                  \E rule \in app.url_map : rule.matcher = req[1].path /\ x \in rule.methods
            /\ Calls("dispatch") = <<>>
       ELSE /\ result # None
            /\ result[1].ok =>
                  /\ result[1].val.allow = None
                  /\ result[1].val.has_body
            /\ (req[1].url_rule # None /\ req[1].url_rule[1].endpoint \in DOMAIN app.view_functions)
                  => Len(Calls("dispatch")) = 1

\* an OPTIONS request on a path with a GET rule and a POST rule was answered
\* with the three methods allowed
C11_Witness ==
    /\ pc = "done"
    /\ AutoOptions
    /\ response # None
    /\ response[1].allow = Some({"GET", "POST", "OPTIONS"})

\* an OPTIONS request on a rule that lists OPTIONS itself went to the view
C11_WitnessListed ==
    /\ pc = "done"
    /\ req[1].url_rule # None
    /\ ~req[1].url_rule[1].provide_automatic_options
    /\ req[1].method = "OPTIONS"
    /\ Len(Calls("dispatch")) = 1

(***************************************************************************)
(* C12.  A module's before-request, after-request and teardown hooks and   *)
(* its HTTP and user error handlers are called for a request only when the *)
(* matched endpoint was registered through a route of that module: never   *)
(* for an endpoint registered on the application or through another        *)
(* module, and never for a request with no matched rule.                   *)
(***************************************************************************)
\* endpoint ep is that of a rule which a route of module n put in the routing table
ThroughModule(n, ep) ==
    \E rule \in app.url_map, rt \in SetupModRoutes :
       /\ rule = Rule_new(rt.matcher, rt.methods, n \o <<Dot>> \o rt.endpoint)
       /\ rule.endpoint = ep

ModuleScopedKinds == {"before", "after", "teardown", "http", "user"}

C12_ModuleScoped ==
    \A i \in 1..Len(log) :
       (log[i].f.owner # AppOwner /\ log[i].f.kind \in ModuleScopedKinds) =>
          /\ req[1].url_rule # None
          /\ ThroughModule(log[i].f.owner, req[1].url_rule[1].endpoint)

(***************************************************************************)
(* C13.  For a module named n and an endpoint e that Module::route         *)
(* accepts, the endpoint recorded in the module's deferred routes, and the *)
(* endpoint later registered on the application, is exactly n, a dot, e.   *)
(***************************************************************************)
\* the route calls Module::route accepts
AcceptedModRoutes == {rt \in SetupModRoutes : ~Contains(rt.endpoint, Dot)}

C13_Namespaced ==
    /\ \A id \in DOMAIN mods :
          mods[id] # Moved =>
             \A i \in 1..Len(mods[id].deferred_routes) :
                LET dr == mods[id].deferred_routes[i]
                IN \E rt \in AcceptedModRoutes :
                      /\ rt.matcher = dr.matcher
                      /\ dr.endpoint = mods[id].name \o <<Dot>> \o rt.endpoint
    /\ \A ep \in DOMAIN app.view_functions :
          LET f == app.view_functions[ep]
          IN (f.owner # AppOwner /\ f.kind = "view") =>
                \E rt \in AcceptedModRoutes :
                   /\ rt.matcher = f.d
                   /\ ep = f.owner \o <<Dot>> \o rt.endpoint
                   /\ Rule_new(rt.matcher, rt.methods, ep) \in app.url_map

\* module n is registered with its endpoint "n.w" and an instance named m
\* has recorded "m.v"
C13_Witness ==
    /\ <<"n", Dot, "w">> \in DOMAIN app.view_functions
    /\ app.view_functions[<<"n", Dot, "w">>].owner = <<"n">>
    /\ mods["m1"] # Moved
    /\ Len(mods["m1"].deferred_routes) = 1
    /\ mods["m1"].deferred_routes[1].endpoint = <<"m", Dot, "v">>

(***************************************************************************)
(* C14.  Module::route called with an endpoint that holds a dot is a       *)
(* configuration error: the call fails, the configuration is aborted, and  *)
(* no entry is added to the module's deferred routes (nor anything else    *)
(* changed), so no deferred route ever holds an endpoint with a dot after  *)
(* the module's prefix.                                                    *)
(***************************************************************************)
C14_NoDottedRoute ==
    \A id \in DOMAIN mods :
       mods[id] # Moved =>
          /\ \A rt \in SetupModRoutes :
                Contains(rt.endpoint, Dot) =>
                   Module_route(mods[id], rt.matcher, rt.methods, rt.endpoint,
                                Fn(mods[id].name, "view", 0, rt.matcher)) = None
          /\ \A i \in 1..Len(mods[id].deferred_routes) :
                LET ep == mods[id].deferred_routes[i].endpoint
                    n == Len(mods[id].name)
                IN /\ Len(ep) > n + 1
                   /\ ~Contains(SubSeq(ep, n + 2, Len(ep)), Dot)

C14_AbortKeeps == phase' = "aborted" => (mods' = mods /\ app' = app)

C14_DottedEndpointRejected == [](C14_NoDottedRoute) /\ [][C14_AbortKeeps]_vars

\* the configuration was aborted by a route call (no module name collides)
\* on a module that had recorded a route, which it still has
C14_Witness ==
    /\ phase = "aborted"
    /\ \A id \in DOMAIN mods : mods[id] # Moved /\ mods[id].name \notin DOMAIN app.modules
    /\ \E id \in DOMAIN mods : Len(mods[id].deferred_routes) = 1

(***************************************************************************)
(* C15.  Registering a module whose name is already in the application's   *)
(* module map is rejected: the configuration is aborted, the module is not *)
(* consumed and the application is unchanged, whichever of the two         *)
(* instances came first.  A registered module is never replaced, and of    *)
(* the instances built under one name at most one is ever registered.      *)
(***************************************************************************)
Colliding(id) == mods[id] # Moved /\ mods[id].name \in DOMAIN app.modules

C15_OnePerName ==
    /\ \A n \in DOMAIN app.modules : app.modules[n].name = n
    /\ \A n \in {ModName(id) : id \in DOMAIN mods} :
          Cardinality({id \in DOMAIN mods : mods[id] = Moved /\ ModName(id) = n})
             = IF n \in DOMAIN app.modules THEN 1 ELSE 0

C15_Rejects ==
    /\ \A n \in DOMAIN app.modules :
          n \in DOMAIN app'.modules /\ app'.modules[n] = app.modules[n]
    /\ \A id \in DOMAIN mods :
          (mods[id] # Moved /\ mods'[id] = Moved) =>
             /\ ~Colliding(id)
             /\ phase' = "setup"
             /\ DOMAIN app'.modules = DOMAIN app.modules \cup {mods[id].name}
    /\ (RegisterModule /\ mods' = mods) =>
          /\ \E id \in DOMAIN mods : Colliding(id)
          /\ phase' = "aborted"
          /\ app' = app

C15_NameCollisionRejected == [](C15_OnePerName) /\ [][C15_Rejects]_vars

\* the second instance named m was registered first, and registering the
\* first one aborted the configuration (no route call was possible any more)
C15_Witness ==
    /\ phase = "aborted"
    /\ mods["m2"] = Moved
    /\ Colliding("m1")
    /\ SetupOps = MaxSetup

\* and the other way round
C15_WitnessFirst ==
    /\ phase = "aborted"
    /\ mods["m1"] = Moved
    /\ Colliding("m2")
    /\ SetupOps = MaxSetup

(***************************************************************************)
(* C16.  An application-scoped registration made on a module changes no    *)
(* application: it is recorded.  Registering the module applies every      *)
(* recorded registration exactly once, in the order recorded: the recorded *)
(* hooks are appended to the hook lists the application has at that time,  *)
(* a recorded error handler takes the place of the application's for the   *)
(* same key, and nothing is left recorded.  The hooks so registered are    *)
(* called for every request, also one outside the module or with no rule.  *)
(***************************************************************************)
\* the functions recorded for one registration method, in the order recorded
Recorded(ds, op) ==
    LET sel == SelectSeq(ds, LAMBDA d : d.op = op)
    IN [i \in 1..Len(sel) |-> sel[i].f]

Range(s) == {s[i] : i \in 1..Len(s)}

\* the functions called in a stage that are in a list of the application, in call order
AppCalls(stage, list) ==
    LET sel == SelectSeq(log, LAMBDA e : e.stage = stage /\ e.f \in Range(list))
    IN [i \in 1..Len(sel) |-> sel[i].f]

NoDuplicates(s) == \A i, j \in 1..Len(s) : s[i] = s[j] => i = j

C16_Applied ==
    /\ \A f \in Range(app.before_request_funcs) \cup Range(app.after_request_funcs)
                \cup Range(app.teardown_request_funcs)
                \cup {app.http_error_handlers[c] : c \in DOMAIN app.http_error_handlers}
                \cup {app.user_error_handlers[d] : d \in DOMAIN app.user_error_handlers} :
          f.owner # AppOwner => f.owner \in DOMAIN app.modules
    /\ NoDuplicates(app.before_request_funcs)
    /\ NoDuplicates(app.after_request_funcs)
    /\ NoDuplicates(app.teardown_request_funcs)
    /\ Dispatched => AppCalls("preprocess", app.before_request_funcs) = app.before_request_funcs
    /\ (pc \in {"teardown", "done"} /\ rv # None /\ rv[1].ok) =>
          AppCalls("postprocess", app.after_request_funcs) = Reverse(app.after_request_funcs)
    /\ pc = "done" =>
          AppCalls("teardown", app.teardown_request_funcs) = Reverse(app.teardown_request_funcs)

C16_Recorded ==
    \A id \in DOMAIN mods :
       /\ (mods[id] # Moved /\ mods'[id] # Moved
            /\ mods'[id].deferred_functions # mods[id].deferred_functions) =>
             /\ app' = app
             /\ Len(mods'[id].deferred_functions) = Len(mods[id].deferred_functions) + 1
             /\ SubSeq(mods'[id].deferred_functions, 1, Len(mods[id].deferred_functions))
                   = mods[id].deferred_functions
       /\ (mods[id] # Moved /\ mods'[id] = Moved) =>
             LET ds == mods[id].deferred_functions
                 http == Recorded(ds, "httperrorhandler")
                 user == Recorded(ds, "usererrorhandler")
             IN /\ app'.before_request_funcs
                      = app.before_request_funcs \o Recorded(ds, "before_request")
                /\ app'.after_request_funcs
                      = app.after_request_funcs \o Recorded(ds, "after_request")
                /\ app'.teardown_request_funcs
                      = app.teardown_request_funcs \o Recorded(ds, "teardown_request")
                /\ DOMAIN app'.http_error_handlers
                      = DOMAIN app.http_error_handlers \cup {f.n : f \in Range(http)}
                /\ \A c \in DOMAIN app'.http_error_handlers :
                      app'.http_error_handlers[c] =
                         IF \E f \in Range(http) : f.n = c
                         THEN CHOOSE f \in Range(http) : f.n = c
                         ELSE app.http_error_handlers[c]
                /\ DOMAIN app'.user_error_handlers
                      = DOMAIN app.user_error_handlers \cup {f.d : f \in Range(user)}
                /\ \A d \in DOMAIN app'.user_error_handlers :
                      app'.user_error_handlers[d] =
                         IF \E f \in Range(user) : f.d = d
                         THEN CHOOSE f \in Range(user) : f.d = d
                         ELSE app.user_error_handlers[d]
                /\ app'.modules[mods[id].name].deferred_functions = <<>>

C16_DeferredRegistrations == [](C16_Applied) /\ [][C16_Recorded]_vars

\* a request that matched no rule went through the application's own
\* before-request hook and then the two a module had recorded
C16_Witness ==
    /\ pc = "done"
    /\ req[1].url_rule = None
    /\ app.before_request_funcs
          = <<Fn(AppOwner, "before", 1, ""), Fn(<<"m">>, "before_app", 1, ""),
              Fn(<<"m">>, "before_app", 2, "")>>
    /\ Len(Calls("preprocess")) = 3

\* a recorded handler for 404 took the place of the application's
C16_WitnessHandler ==
    /\ 404 \in DOMAIN app.http_error_handlers
    /\ app.http_error_handlers[404].owner = <<"m">>
    /\ app.after_request_funcs = <<Fn(AppOwner, "after", 1, "")>>

(***************************************************************************)
(* C17.  A successful register(module, app) puts every route deferred on   *)
(* the module, and one static route of endpoint "<name>.static" exactly    *)
(* when a static folder and a static URL path are both set, in the routing *)
(* table and in the view registry under its namespaced endpoint (where     *)
(* several routes share an endpoint the registry holds the view of the     *)
(* last), and nothing else; it stores the module under its name with its   *)
(* deferred lists emptied; and the module, being consumed, stays consumed. *)
(***************************************************************************)
StaticEndpoint(n) == n \o <<Dot, "s", "t", "a", "t", "i", "c">>

HasStatic(m) == m.static_folder # None /\ m.static_url_path # None

\* the routes register is to materialize for module m
RoutesOf(m) ==
    m.deferred_routes \o
       (IF HasStatic(m)
        THEN <<[matcher |-> m.static_url_path[1] \o "/<filename:path>", methods |-> {"GET"},
                endpoint |-> StaticEndpoint(m.name),
                view_func |-> Fn(m.name, "send_module_static_file", 0, "")]>>
        ELSE <<>>)

\* the view of the last route of the list registered under endpoint ep
LastView(routes, ep) ==
    LET i == CHOOSE k \in 1..Len(routes) :
                /\ routes[k].endpoint = ep
                /\ \A j \in (k + 1)..Len(routes) : routes[j].endpoint # ep
    IN routes[i].view_func

C17_Materialized ==
    \A id \in DOMAIN mods :
       /\ mods[id] = Moved => mods'[id] = Moved
       /\ (mods[id] # Moved /\ mods'[id] = Moved) =>
             LET m == mods[id]
                 routes == RoutesOf(m)
                 eps == {routes[i].endpoint : i \in 1..Len(routes)}
             IN /\ app'.url_map = app.url_map \cup
                      {Rule_new(routes[i].matcher, routes[i].methods, routes[i].endpoint)
                          : i \in 1..Len(routes)}
                /\ DOMAIN app'.view_functions = DOMAIN app.view_functions \cup eps
                /\ \A ep \in eps :
                      /\ Namespaced(m.name, ep)
                      /\ app'.view_functions[ep] = LastView(routes, ep)
                /\ \A ep \in DOMAIN app.view_functions \ eps :
                      app'.view_functions[ep] = app.view_functions[ep]
                /\ (StaticEndpoint(m.name) \in DOMAIN app'.view_functions) <=> HasStatic(m)
                /\ m.name \in DOMAIN app'.modules
                /\ app'.modules[m.name] =
                      [m EXCEPT !.deferred_routes = <<>>, !.deferred_functions = <<>>]

C17_Register == [][C17_Materialized]_vars

\* module m was registered with a route of its own and its static route
C17_Witness ==
    /\ <<"m">> \in DOMAIN app.modules
    /\ HasStatic(app.modules[<<"m">>])
    /\ StaticEndpoint(<<"m">>) \in DOMAIN app.view_functions
    /\ <<"m", Dot, "v">> \in DOMAIN app.view_functions
    /\ Cardinality(app.url_map) = 2

\* a module with a static URL path and no static folder was registered
\* without a static route; a module with two routes under one endpoint was
\* registered and the registry holds the view of the second
C17_WitnessNoFolder ==
    /\ <<"m">> \in DOMAIN app.modules
    /\ app.modules[<<"m">>].static_url_path # None
    /\ app.modules[<<"m">>].static_folder = None
    /\ app.url_map # {}

C17_WitnessShared ==
    /\ <<"m">> \in DOMAIN app.modules
    /\ Cardinality({r \in app.url_map : r.endpoint = <<"m", Dot, "w">>}) = 2

(***************************************************************************)
(* C18.  After any sequence of route registrations on the application and  *)
(* of module registrations, every rule of the routing table has a handler  *)
(* in the view registry under the rule's endpoint; so a request that       *)
(* matched a rule, and is not answered before the lookup, has its view     *)
(* called: the 404 of a missing handler never happens.                     *)
(***************************************************************************)
C18_RuleHasHandler ==
    /\ \A rule \in app.url_map : rule.endpoint \in DOMAIN app.view_functions
    /\ (Dispatched /\ req[1].url_rule # None /\ ~AutoOptions) =>
          /\ Len(Calls("dispatch")) = 1
          /\ Calls("dispatch")[1].f = app.view_functions[req[1].url_rule[1].endpoint]
          /\ result = Calls("dispatch")[1].ret

\* with a rule of the application and two of a module in the table, a
\* request matched a module rule and its view was called
C18_Witness ==
    /\ pc = "done"
    /\ Cardinality(app.url_map) = 3
    /\ \E rule \in app.url_map : ~Contains(rule.endpoint, Dot)
    /\ req[1].url_rule # None
    /\ req[1].url_rule[1].endpoint = <<"m", Dot, "w">>
    /\ Len(Calls("dispatch")) = 1

(***************************************************************************)
(* C19.  Endpoint names are unique over the application and its modules:   *)
(* after any sequence of route registrations and module registrations no   *)
(* two rules of the routing table have the same endpoint, and a handler    *)
(* registered for an endpoint is never replaced by a later registration.   *)
(***************************************************************************)
C19_OneRulePerEndpoint ==
    \A r1, r2 \in app.url_map : r1.endpoint = r2.endpoint => r1 = r2

C19_HandlerKept ==
    \A ep \in DOMAIN app.view_functions :
       /\ ep \in DOMAIN app'.view_functions
       /\ app'.view_functions[ep] = app.view_functions[ep]

C19_EndpointsUnique == [](C19_OneRulePerEndpoint) /\ [][C19_HandlerKept]_vars

(***************************************************************************)
(* C20.  Before binding the request stores no routing outcome.  Binding    *)
(* stores exactly one of the three: a matched rule, a redirect target with *)
(* its status code, or a routing error, and it is an outcome the routing   *)
(* table gives for the request's path and method.  No later stage of the   *)
(* pipeline changes what is stored.                                        *)
(***************************************************************************)
\* the outcomes stored on a request, in the shape Bind gives them
StoredOutcomes(r) ==
    (IF r.url_rule # None THEN {[kind |-> "rule", rule |-> r.url_rule[1]]} ELSE {})
    \cup (IF r.routing_redirect # None
          THEN {[kind |-> "redirect", url |-> r.routing_redirect[1].url,
                 code |-> r.routing_redirect[1].code]}
          ELSE {})
    \cup (IF r.routing_error # None
          THEN {[kind |-> "error", error |-> r.routing_error[1]]}
          ELSE {})

C20_OneOutcome ==
    /\ pc \in {"idle", "rejected"} => req = None
    /\ pc = "new" => StoredOutcomes(req[1]) = {}
    /\ Bound =>
          /\ Cardinality(StoredOutcomes(req[1])) = 1
          /\ StoredOutcomes(req[1]) \subseteq Bind(app.url_map, req[1].path, req[1].method)

C20_OutcomeKept == Bound => req' = req

C20_RoutingOutcome == [](C20_OneOutcome) /\ [][C20_OutcomeKept]_vars

\* a redirected request went through a before-request hook, an
\* after-request hook and a teardown hook with its outcome stored
C20_Witness ==
    /\ pc = "done"
    /\ req[1].routing_redirect # None
    /\ req[1].url_rule = None /\ req[1].routing_error = None
    /\ Len(Calls("preprocess")) = 1
    /\ Len(Calls("postprocess")) = 1
    /\ Len(Calls("teardown")) = 1

\* so did a request with a matched rule, and one with a routing error
C20_WitnessRule ==
    /\ pc = "done"
    /\ req[1].url_rule # None
    /\ Len(Calls("dispatch")) = 1
    /\ Len(Calls("recover")) = 1

C20_WitnessError ==
    /\ pc = "done"
    /\ req[1].routing_error = Some(HttpErr(404))
    /\ Len(Calls("recover")) = 1

(***************************************************************************)
(* Two workers handling requests at once on a shared application.          *)
(***************************************************************************)
\* before-request hooks the shared application has
MaxHooks == 2

RECURSIVE WithBefore(_, _)
\* n calls of Pencil::before_request
WithBefore(a, n) ==
    IF n = 0 THEN a
    ELSE Pencil_before_request(WithBefore(a, n - 1), Fn(AppOwner, "before", n, ""))

RECURSIVE WithAfter(_, _)
\* n calls of Pencil::after_request
WithAfter(a, n) ==
    IF n = 0 THEN a
    ELSE Pencil_after_request(WithAfter(a, n - 1), Fn(AppOwner, "after", n, ""))

RECURSIVE WithTeardown(_, _)
\* n calls of Pencil::teardown_request
WithTeardown(a, n) ==
    IF n = 0 THEN a
    ELSE Pencil_teardown_request(WithTeardown(a, n - 1), Fn(AppOwner, "teardown", n, ""))

\* the applications the workers are given: one route at most, before-request
\* hooks, an after-request hook and a teardown hook
WorkersApps ==
    LET routed == {Pencil_new} \cup
                  {add_url_rule(Pencil_new, rt.matcher, ms, rt.endpoint,
                                Fn(AppOwner, "view", 0, rt.matcher)) :
                      rt \in AppRoutes, ms \in RouteMethods}
    IN {WithTeardown(WithAfter(WithBefore(a, b), 1), 1) : a \in routed, b \in 0..MaxHooks}

WorkersInit ==
    /\ phase = "setup"
    /\ app \in WorkersApps
    /\ mods = [id \in ModuleIds |-> Module_new(ModName(id))]
    /\ pc = "idle"
    /\ req = None
    /\ todo = <<>>
    /\ result = None
    /\ rv = None
    /\ err = None
    /\ response = None
    /\ log = <<>>
    /\ parked = Idle
    /\ input = None
    /\ output = None
    /\ views = None

WorkersNext ==
    \/ Run
    \/ NewRequest
    \/ MatchRequest
    \/ PreprocessStep
    \/ Dispatch
    \/ HandleAllError
    \/ ProcessResponseStep
    \/ DispatchOk
    \/ HandleError
    \/ TeardownStep
    \/ Return
    \/ Switch

WorkersSpec == WorkersInit /\ [][WorkersNext]_vars

(***************************************************************************)
(* C21.  Handling a request never changes the application (routing table,  *)
(* view registry, hook lists, error-handler maps, module map) nor the      *)
(* modules, and a step changes the state of the worker taking it only; so  *)
(* for each of two workers handling requests at once, the hooks and the    *)
(* view called, their order, and the hooks that touched the response are   *)
(* the ones the application alone determines for that worker's request.    *)
(***************************************************************************)
IsPrefix(s, t) == Len(s) <= Len(t) /\ s = SubSeq(t, 1, Len(s))

\* the functions a worker called in one stage, in call order
Funcs(w, stage) ==
    LET c == SelectSeq(w.log, LAMBDA e : e.stage = stage)
    IN [i \in 1..Len(c) |-> c[i].f]

SameAsAlone(w) ==
    w.pc \notin {"idle", "new", "rejected"} =>
      LET r == w.req[1]
          B == preprocess_request(app, r)
          A == process_response(app, r)
          T == do_teardown_request(app, r)
      IN /\ IsPrefix(Funcs(w, "preprocess"), B)
         /\ w.pc = "preprocess" => Funcs(w, "preprocess") \o w.todo = B
         /\ \A i \in 1..Len(Funcs(w, "dispatch")) :
               /\ endpoint(r) # None
               /\ endpoint(r)[1] \in DOMAIN app.view_functions
               /\ Funcs(w, "dispatch")[i] = app.view_functions[endpoint(r)[1]]
         /\ IsPrefix(Funcs(w, "postprocess"), A)
         /\ w.pc = "postprocess" =>
               /\ Funcs(w, "postprocess") \o w.todo = A
               /\ w.rv[1].val.touched = Funcs(w, "postprocess")
         /\ (w.pc \in {"teardown", "done"} /\ w.err = None) =>
               /\ Funcs(w, "postprocess") = A
               /\ w.response[1].touched = A
         /\ w.pc = "teardown" => Funcs(w, "teardown") \o w.todo = T
         /\ w.pc = "done" => Funcs(w, "teardown") = T

C21_SameAsAlone == SameAsAlone(Current) /\ SameAsAlone(parked)

C21_ReadOnly ==
    phase = "serving" =>
       /\ app' = app
       /\ mods' = mods
       /\ parked' = parked \/ (parked' = Current /\ Current' = parked)

C21_RequestsDoNotInterfere == [](C21_SameAsAlone) /\ [][C21_ReadOnly]_vars

\* one worker is in the middle of its before-request hooks while the other
\* has finished a request that called a view and hooks
C21_Witness ==
    /\ parked.pc = "preprocess" /\ parked.log # <<>> /\ parked.todo # <<>>
    /\ pc = "done" /\ Funcs(Current, "dispatch") # <<>>
    /\ Funcs(Current, "postprocess") # <<>>
    /\ Len(app.before_request_funcs) = 2

(***************************************************************************)
(* C22.  A request without a Host header, or with a URI of an unsupported  *)
(* form, is answered 400 Bad Request by Handler::handle itself: it is not  *)
(* routed, no hook and no view is called for it, and nothing more is done  *)
(* for it.                                                                 *)
(***************************************************************************)
BadRequest == Response(400, Fn(AppOwner, "bad_request", 0, ""), None)

C22_Rejected ==
    /\ pc = "rejected" =>
          /\ response = Some(BadRequest)
          /\ req = None /\ log = <<>> /\ todo = <<>>
          /\ result = None /\ rv = None /\ err = None
    /\ response = Some(BadRequest) => pc = "rejected"

C22_NothingMore == pc = "rejected" => UNCHANGED reqvars

C22_BadRequest == [](C22_Rejected) /\ [][C22_NothingMore]_vars

\* a request was rejected by an application that has a route and hooks of
\* every kind
C22_Witness ==
    /\ pc = "rejected"
    /\ app.url_map # {}
    /\ app.before_request_funcs # <<>>
    /\ app.after_request_funcs # <<>>
    /\ app.teardown_request_funcs # <<>>

(***************************************************************************)
(* Library calls studied one at a time: the application is left as         *)
(* constructed, the arguments of the call are drawn at the start.          *)
(***************************************************************************)
appvars == <<phase, app, mods, reqvars, parked>>

\* the application as constructed, no request handled
Unused ==
    /\ phase = "setup"
    /\ app = Pencil_new
    /\ mods = [id \in ModuleIds |-> Module_new(ModName(id))]
    /\ pc = "idle"
    /\ req = None
    /\ todo = <<>>
    /\ result = None
    /\ rv = None
    /\ err = None
    /\ response = None
    /\ log = <<>>
    /\ parked = Idle

(***************************************************************************)
(* Response::write (wrappers.rs).  A header collection is a function from  *)
(* header names to values, a body is the sequence of bytes its producer    *)
(* yields.                                                                 *)
(***************************************************************************)
NoHeaders == [n \in {} |-> 0]

\* Headers::set
SetHeader(headers, name, value) == (name :> value) @@ headers

\* the fields of a Response: status_code, headers, body (Option)
ResponseParts(status_code, headers, body) ==
    [status_code |-> status_code, headers |-> headers, body |-> body]

\* the responses written and the methods of their requests
WriteStatuses == {100, 199, 200, 204, 304, 404}

WriteLengths == {0, 2, 5}

WriteBodies == {None, Some(<<>>), Some(<<7, 8>>)}

WriteHeaders ==
    {NoHeaders, SetHeader(NoHeaders, "Content-Type", "text/html")}
    \cup {SetHeader(SetHeader(NoHeaders, "Content-Type", "text/html"), "Content-Length", n) :
             n \in WriteLengths}

WriteMethods == {"GET", "HEAD", "POST"}

\* the connection takes the response, or start() fails on it
Transports == {"open", "closed"}

\* httputils::get_status_from_code: the hyper StatusCode of a numeric code
get_status_from_code(code) == [code |-> code, class |-> code \div 100]

\* what hyper is handed: status, headers, the bytes written to the body
\* writer, and whether the response was ended
Wire(status, headers, body, ended) ==
    [status |-> status, headers |-> headers, body |-> body, ended |-> ended]

\* Response::write sending the body of a response to a HEAD request
Response_write_HeadBody(self, request_method, transport) ==
    LET status == get_status_from_code(self.status_code)
        bodiless == (100 <= self.status_code /\ self.status_code < 200)
                    \/ self.status_code = 204 \/ self.status_code = 304
        empty == SetHeader(self.headers, "Content-Length", 0)
    IN IF bodiless
       THEN Wire(status, empty, <<>>, transport = "open")
       ELSE IF self.body # None
       THEN Wire(status, self.headers,
                 IF transport = "open" THEN self.body[1] ELSE <<>>, transport = "open")
       ELSE Wire(status, empty, <<>>, transport = "open")

\* Response::write
Response_write(self, request_method, transport) ==
    LET status == get_status_from_code(self.status_code)
        bodiless == request_method = "HEAD"
                    \/ (100 <= self.status_code /\ self.status_code < 200)
                    \/ self.status_code = 204 \/ self.status_code = 304
        empty == SetHeader(self.headers, "Content-Length", 0)
    IN IF bodiless
       THEN Wire(status, empty, <<>>, transport = "open")
       ELSE IF self.body # None
       THEN Wire(status, self.headers,
                 IF transport = "open" THEN self.body[1] ELSE <<>>, transport = "open")
       ELSE Wire(status, empty, <<>>, transport = "open")

\* Handler::handle: response.write(request.method(), res)
Write ==
    /\ input # None /\ output = None
    /\ \E transport \in Transports :
          output' = Some(Response_write(input[1].response, input[1].method, transport))
    /\ UNCHANGED <<appvars, input, views>>

WriteInit ==
    /\ Unused
    /\ input \in {Some([method |-> m, response |-> ResponseParts(st, h, b)]) :
                     m \in WriteMethods, st \in WriteStatuses,
                     h \in WriteHeaders, b \in WriteBodies}
    /\ output = None
    /\ views = None

WriteNext == Write

WriteSpec == WriteInit /\ [][WriteNext]_vars

(***************************************************************************)
(* C23.  A response that is written to an open connection carries the      *)
(* response's status; for a HEAD request, and for a status in 100..199,    *)
(* 204 or 304, no body byte is written and Content-Length is 0 whatever    *)
(* body and Content-Length the response had; otherwise a present body is   *)
(* written in full with the headers as the pipeline left them, and an      *)
(* absent body gives no body byte and Content-Length 0.  No other header   *)
(* is changed in either case.                                              *)
(***************************************************************************)
Bodiless(m, st) == m = "HEAD" \/ st \in 100..199 \/ st \in {204, 304}

C23_WriteRules ==
    (output # None /\ output[1].ended) =>
       LET m == input[1].method
           r == input[1].response
           w == output[1]
       IN /\ w.status.code = r.status_code
          /\ IF Bodiless(m, r.status_code) \/ r.body = None
             THEN /\ w.body = <<>>
                  /\ DOMAIN w.headers = DOMAIN r.headers \cup {"Content-Length"}
                  /\ w.headers["Content-Length"] = 0
                  /\ \A n \in DOMAIN r.headers \ {"Content-Length"} :
                        w.headers[n] = r.headers[n]
             ELSE /\ w.body = r.body[1]
                  /\ w.headers = r.headers

\* a HEAD request's 200 response with a body and a Content-Length of its own
\* was written
C23_Witness ==
    /\ output # None /\ output[1].ended
    /\ input[1].method = "HEAD" /\ input[1].response.status_code = 200
    /\ input[1].response.body = Some(<<7, 8>>)
    /\ "Content-Length" \in DOMAIN input[1].response.headers
    /\ input[1].response.headers["Content-Length"] = 2

\* a GET request's 404 response with a body was written
C23_WitnessBody ==
    /\ output # None /\ output[1].ended
    /\ input[1].method = "GET" /\ input[1].response.status_code = 404
    /\ input[1].response.body = Some(<<7, 8>>)
    /\ output[1].body = <<7, 8>>

(***************************************************************************)
(* The range responder: send_file_range (helpers.rs).                      *)
(*                                                                         *)
(* Offsets and lengths are u64 in the code.  The model keeps the           *)
(* arithmetic of fixed-width words on words of WordBits bits: Half stands  *)
(* for 2^63 (the first value that is negative as an i64) and MaxWord for   *)
(* u64::MAX.  An operation that leaves the word panics in a build with     *)
(* overflow checks ("debug") and wraps in one without ("release").         *)
(***************************************************************************)
WordBits == 8

Modulus == 2 ^ WordBits

Half == Modulus \div 2

MaxWord == Modulus - 1

Builds == {"debug", "release"}

\* the result of a wrapping operation
Wrap(x) == (x + Modulus) % Modulus

\* `x as i64`
AsSigned(x) == IF x >= Half THEN x - Modulus ELSE x

\* the panic of an arithmetic operation with overflow checks
Overflowed == [ok |-> FALSE, val |-> [tag |-> "panic", code |-> 0, desc |-> "overflow"]]

\* the file a path names: nothing, a directory, a regular file that cannot
\* be opened, or a regular file; the byte at offset i of a file is i
Content(n) == [i \in 1..n |-> i - 1]

FileLengths == {0, 1, 4, 10}

Files ==
    {[kind |-> k, bytes |-> <<>>] : k \in {"absent", "dir"}}
    \cup {[kind |-> "locked", bytes |-> Content(4)]}
    \cup {[kind |-> "file", bytes |-> Content(n)] : n \in FileLengths}

\* the offsets and counts a range header carries
Offsets == {0, 1, 2, 3, 4, 5, 9, 10, 11, Half - 1, Half, Half + 1, MaxWord}

\* hyper's ByteRangeSpec: FromTo(a, b), AllFrom(a), Last(a)
FromTo(a, b) == [kind |-> "FromTo", a |-> a, b |-> b]

AllFrom(a) == [kind |-> "AllFrom", a |-> a, b |-> 0]

Last(a) == [kind |-> "Last", a |-> a, b |-> 0]

Spans ==
    {FromTo(p[1], p[2]) : p \in {q \in Offsets \X Offsets : q[1] <= q[2]}}
    \cup {AllFrom(a) : a \in Offsets} \cup {Last(a) : a \in Offsets}

\* hyper's Range: Bytes(spans) or Unregistered(unit, text)
Bytes(spans) == [unit |-> "bytes", spans |-> spans]

Unregistered(unit) == [unit |-> unit, spans |-> <<>>]

\* the Range headers of the requests (Option)
Ranges ==
    {None, Some(Unregistered("items")), Some(Bytes(<<>>)),
     Some(Bytes(<<FromTo(0, 1), FromTo(3, 4)>>)), Some(Bytes(<<AllFrom(0), Last(1)>>))}
    \cup {Some(Bytes(<<sp>>)) : sp \in Spans}

\* what reading the file from position pos on yields, n bytes at most
ReadFrom(bytes, pos, n) ==
    IF pos >= Len(bytes) \/ n = 0 THEN <<>>
    ELSE SubSeq(bytes, pos + 1, IF pos + n < Len(bytes) THEN pos + n ELSE Len(bytes))

\* a 206 response with its Content-Length and Content-Range
Partial(body, length, first, last, len) ==
    ResponseParts(206,
        SetHeader(SetHeader(SetHeader(NoHeaders, "Content-Type", "text/html"),
                            "Content-Length", length),
                  "Content-Range", [first |-> first, last |-> last, instance_length |-> len]),
        Some(body))

\* send_file_range, the match on vec_ranges[0]: the seek, then the response
\* with its body producer and its two headers
RangeArm(bytes, sp, build) ==
    LET len == Len(bytes)
    IN IF sp.kind = "FromTo"
       THEN LET count == Wrap(Wrap(sp.b - sp.a) + 1)
                over == sp.b < sp.a \/ sp.b - sp.a + 1 > MaxWord
            IN IF sp.a >= Half THEN Err(HttpErr(500))
               ELSE IF over /\ build = "debug" THEN Overflowed
               ELSE Ok(Partial(ReadFrom(bytes, sp.a, count), count, sp.a, sp.b, len))
       ELSE IF sp.kind = "AllFrom"
       THEN LET over == sp.a > len \/ len = 0
            IN IF sp.a >= Half THEN Err(HttpErr(500))
               ELSE IF over /\ build = "debug" THEN Overflowed
               ELSE Ok(Partial(ReadFrom(bytes, sp.a, len), Wrap(len - sp.a),
                               sp.a, Wrap(len - 1), len))
       ELSE LET signed == AsSigned(sp.a)
                pos == len + (IF signed = -Half THEN signed ELSE -signed)
                over == sp.a > len \/ len = 0
            IN IF signed = -Half /\ build = "debug" THEN Overflowed
               ELSE IF pos < 0 THEN Err(HttpErr(500))
               ELSE IF over /\ build = "debug" THEN Overflowed
               ELSE Ok(Partial(ReadFrom(bytes, pos, len), sp.a,
                               Wrap(len - sp.a), Wrap(len - 1), len))

\* send_file_range not telling a byte range of several spans from one span
send_file_range_FirstSpan(file, mimetype, as_attachment, range, build) ==
    IF file.kind \notin {"file", "locked"} THEN Err(HttpErr(404))
    ELSE IF file.kind = "locked" THEN Err(UserErr("couldn't open"))
    ELSE LET len == Len(file.bytes)
             r == IF range # None /\ range[1].unit = "bytes"
                  THEN IF Len(range[1].spans) = 0 THEN Err(HttpErr(501))
                       ELSE RangeArm(file.bytes, range[1].spans[1], build)
                  ELSE IF range # None THEN Err(HttpErr(501))
                  ELSE Ok(ResponseParts(200,
                             SetHeader(SetHeader(NoHeaders, "Content-Type", "text/html"),
                                       "Content-Length", len),
                             Some(file.bytes)))
             typed == SetHeader(r.val.headers, "Content-Type", mimetype)
         IN IF ~r.ok THEN r
            ELSE Ok([r.val EXCEPT !.headers =
                        IF as_attachment
                        THEN SetHeader(typed, "Content-Disposition", "attachment; filename=a.txt")
                        ELSE typed])

\* send_file_range checking the range before the file
send_file_range_RangeFirst(file, mimetype, as_attachment, range, build) ==
    IF range # None /\ (range[1].unit # "bytes" \/ Len(range[1].spans) # 1)
    THEN Err(HttpErr(501))
    ELSE send_file_range_FirstSpan(file, mimetype, as_attachment, range, build)

\* helpers::send_file_range, for a path that names `file`
send_file_range(file, mimetype, as_attachment, range, build) ==
    IF file.kind \notin {"file", "locked"} THEN Err(HttpErr(404))
    ELSE IF file.kind = "locked" THEN Err(UserErr("couldn't open"))
    ELSE LET len == Len(file.bytes)
             r == IF range # None /\ range[1].unit = "bytes"
                  THEN IF Len(range[1].spans) # 1 THEN Err(HttpErr(501))
                       ELSE RangeArm(file.bytes, range[1].spans[1], build)
                  ELSE IF range # None THEN Err(HttpErr(501))
                  ELSE Ok(ResponseParts(200,
                             SetHeader(SetHeader(NoHeaders, "Content-Type", "text/html"),
                                       "Content-Length", len),
                             Some(file.bytes)))
             typed == SetHeader(r.val.headers, "Content-Type", mimetype)
         IN IF ~r.ok THEN r
            ELSE Ok([r.val EXCEPT !.headers =
                        IF as_attachment
                        THEN SetHeader(typed, "Content-Disposition", "attachment; filename=a.txt")
                        ELSE typed])

\* a view calls send_file_range
SendFileRange ==
    /\ input # None /\ output = None
    /\ output' = Some(send_file_range(input[1].file, input[1].mimetype,
                                      input[1].as_attachment, input[1].range, input[1].build))
    /\ UNCHANGED <<appvars, input, views>>

RangeInit ==
    /\ Unused
    /\ input \in {Some([file |-> f, mimetype |-> "text/plain", as_attachment |-> at,
                         range |-> rg, build |-> bd]) :
                     f \in Files, at \in BOOLEAN, rg \in Ranges, bd \in Builds}
    /\ output = None
    /\ views = None

RangeNext == SendFileRange

RangeSpec == RangeInit /\ [][RangeNext]_vars

(***************************************************************************)
(* Claims on the range responder.                                          *)
(***************************************************************************)
\* the call was made for a regular file that opens
Served == input # None /\ output # None /\ input[1].file.kind = "file"

\* the call carried a byte range of exactly one span, of the given kind
SingleSpan(kind) ==
    /\ input[1].range # None
    /\ input[1].range[1].unit = "bytes"
    /\ Len(input[1].range[1].spans) = 1
    /\ input[1].range[1].spans[1].kind = kind

TheSpan == input[1].range[1].spans[1]

FileLen == Len(input[1].file.bytes)

ContentRange(first, last, len) == [first |-> first, last |-> last, instance_length |-> len]

\* the call returned a 206 response with these headers and this body
Returned206(length, first, last, body) ==
    /\ output[1].ok
    /\ output[1].val.status_code = 206
    /\ output[1].val.headers["Content-Length"] = length
    /\ output[1].val.headers["Content-Range"] = ContentRange(first, last, FileLen)
    /\ output[1].val.body = Some(body)

(***************************************************************************)
(* C24.  For a file of length len and a single span from-to, the response  *)
(* has status 206, Content-Length to-from+1, Content-Range                 *)
(* from-to/len, and as body the file's bytes from offset from on, limited  *)
(* to to-from+1 bytes.                                                     *)
(***************************************************************************)
C24_FromTo ==
    (Served /\ SingleSpan("FromTo")) =>
       Returned206(TheSpan.b - TheSpan.a + 1, TheSpan.a, TheSpan.b,
                   ReadFrom(input[1].file.bytes, TheSpan.a, TheSpan.b - TheSpan.a + 1))

\* the same for the spans whose offsets are below 2^63 and whose length
\* to-from+1 is a u64
C24_FromToInWord ==
    (Served /\ SingleSpan("FromTo") /\ TheSpan.a < Half
       /\ TheSpan.b - TheSpan.a + 1 <= MaxWord) =>
       Returned206(TheSpan.b - TheSpan.a + 1, TheSpan.a, TheSpan.b,
                   ReadFrom(input[1].file.bytes, TheSpan.a, TheSpan.b - TheSpan.a + 1))

\* bytes=2-5 of a 10-byte file: 206, Content-Length 4, bytes 2-5/10, body 2..5
C24_Example ==
    /\ Served /\ SingleSpan("FromTo")
    /\ FileLen = 10 /\ TheSpan = FromTo(2, 5)
    /\ Returned206(4, 2, 5, <<2, 3, 4, 5>>)

(***************************************************************************)
(* C25.  For a file of length len and a single open-ended span from-, for  *)
(* every from, the response has status 206, as body the rest of the file   *)
(* from offset from, Content-Length len-from and Content-Range             *)
(* from-(len-1)/len, no subtraction going below zero.                      *)
(***************************************************************************)
C25_AllFrom ==
    (Served /\ SingleSpan("AllFrom")) =>
       /\ TheSpan.a <= FileLen /\ 1 <= FileLen
       /\ Returned206(FileLen - TheSpan.a, TheSpan.a, FileLen - 1,
                      ReadFrom(input[1].file.bytes, TheSpan.a, FileLen))

\* the same for the offsets inside a file that is not empty
C25_AllFromInside ==
    (Served /\ SingleSpan("AllFrom") /\ TheSpan.a <= FileLen /\ 1 <= FileLen) =>
       Returned206(FileLen - TheSpan.a, TheSpan.a, FileLen - 1,
                   ReadFrom(input[1].file.bytes, TheSpan.a, FileLen))

(***************************************************************************)
(* C26.  For a file of length len and a single span -N: when N <= len the  *)
(* response has status 206, its body runs from offset len-N to the end of  *)
(* the file, Content-Length is N and Content-Range is                      *)
(* (len-N)-(len-1)/len; when N > len the call fails with an error and      *)
(* returns no response.                                                    *)
(***************************************************************************)
C26_Last ==
    (Served /\ SingleSpan("Last")) =>
       IF TheSpan.a <= FileLen
       THEN /\ 1 <= FileLen
            /\ Returned206(TheSpan.a, FileLen - TheSpan.a, FileLen - 1,
                           ReadFrom(input[1].file.bytes, FileLen - TheSpan.a, FileLen))
       ELSE ~output[1].ok /\ output[1].val.tag # "panic"

\* the same for a file that is not empty and N below 2^63
C26_LastInWord ==
    (Served /\ SingleSpan("Last") /\ 1 <= FileLen /\ TheSpan.a < Half) =>
       IF TheSpan.a <= FileLen
       THEN Returned206(TheSpan.a, FileLen - TheSpan.a, FileLen - 1,
                        ReadFrom(input[1].file.bytes, FileLen - TheSpan.a, FileLen))
       ELSE output[1] = Err(HttpErr(500))

(***************************************************************************)
(* C27.  A byte range whose span list has not exactly one span, and a      *)
(* range in a unit other than bytes, never gives a response (no 206, no    *)
(* 200): the call fails, with NotImplemented whenever the file is there    *)
(* to be served.                                                           *)
(***************************************************************************)
Unsupported ==
    /\ input[1].range # None
    /\ input[1].range[1].unit # "bytes" \/ Len(input[1].range[1].spans) # 1

C27_NotImplemented ==
    (input # None /\ output # None /\ Unsupported) =>
       /\ ~output[1].ok
       /\ input[1].file.kind = "file" => output[1] = Err(HttpErr(501))

\* bytes=0-1,3-4 on a 10-byte file failed with NotImplemented
C27_Witness ==
    /\ Served /\ FileLen = 10
    /\ input[1].range = Some(Bytes(<<FromTo(0, 1), FromTo(3, 4)>>))
    /\ output[1] = Err(HttpErr(501))

\* a range in another unit failed with NotImplemented
C27_WitnessUnit ==
    /\ Served /\ input[1].range = Some(Unregistered("items"))
    /\ output[1] = Err(HttpErr(501))

(***************************************************************************)
(* C28.  When the path does not name an existing regular file the call     *)
(* fails with NotFound whatever the range header is (also one of several   *)
(* spans or of another unit); for a regular file and no range header the   *)
(* response has status 200, the whole file as body, and Content-Length     *)
(* equal to the file's size.                                               *)
(***************************************************************************)
C28_NotFoundFirst ==
    (input # None /\ output # None) =>
       /\ input[1].file.kind \in {"absent", "dir"} => output[1] = Err(HttpErr(404))
       /\ (input[1].file.kind = "file" /\ input[1].range = None) =>
             /\ output[1].ok
             /\ output[1].val.status_code = 200
             /\ output[1].val.body = Some(input[1].file.bytes)
             /\ output[1].val.headers["Content-Length"] = FileLen

\* a missing file asked for with a range of two spans gave NotFound
C28_Witness ==
    /\ input # None /\ output # None
    /\ input[1].file.kind = "absent"
    /\ input[1].range = Some(Bytes(<<FromTo(0, 1), FromTo(3, 4)>>))
    /\ output[1] = Err(HttpErr(404))

\* a 10-byte file asked for without a range was returned whole
C28_WitnessWhole ==
    /\ Served /\ input[1].range = None /\ FileLen = 10
    /\ output[1].ok /\ output[1].val.status_code = 200

(***************************************************************************)
(* Serving files from a directory: safe_join and                           *)
(* send_from_directory_range (helpers.rs).  A path is the sequence of its  *)
(* components; a filename is a path that is absolute or relative.          *)
(***************************************************************************)
\* components of a requested filename
MaxParts == 3

PathParts == {"a.txt", "sub", "secret", "..", "."}

Filenames ==
    {[absolute |-> ab, parts |-> p] :
        ab \in BOOLEAN, p \in UNION {[1..n -> PathParts] : n \in 0..MaxParts}}

\* the directory files are served from, and the files of the machine: the
\* directory holds a.txt and sub/a.txt, and a file named secret lies next
\* to the directory
ServedDirectory == <<"srv", "static">>

Directory == [kind |-> "dir", bytes |-> <<>>]

Tree ==
    (<<>> :> Directory) @@ (<<"srv">> :> Directory)
    @@ (<<"srv", "static">> :> Directory)
    @@ (<<"srv", "static", "a.txt">> :> [kind |-> "file", bytes |-> Content(4)])
    @@ (<<"srv", "static", "sub">> :> Directory)
    @@ (<<"srv", "static", "sub", "a.txt">> :> [kind |-> "file", bytes |-> Content(1)])
    @@ (<<"srv", "secret">> :> [kind |-> "file", bytes |-> <<42, 42>>])

RECURSIVE Walk(_, _)
\* path resolution by the operating system: from the directory `at`, follow
\* the components `rest`; None when a component is looked up in something
\* that is not a directory
Walk(at, rest) ==
    IF rest = <<>> THEN Some(at)
    ELSE IF at \notin DOMAIN Tree \/ Tree[at].kind # "dir" THEN None
    ELSE IF Head(rest) = "." THEN Walk(at, Tail(rest))
    ELSE IF Head(rest) = ".."
    THEN Walk(IF at = <<>> THEN at ELSE SubSeq(at, 1, Len(at) - 1), Tail(rest))
    ELSE Walk(Append(at, Head(rest)), Tail(rest))

\* what a path names
FileAt(path) ==
    LET at == Walk(<<>>, path)
    IN IF at = None \/ at[1] \notin DOMAIN Tree THEN [kind |-> "absent", bytes |-> <<>>]
       ELSE Tree[at[1]]

\* helpers::safe_join
safe_join(directory, filename) ==
    IF filename.absolute
       \/ filename.parts = <<"..">>
       \/ (Len(filename.parts) >= 2 /\ filename.parts[1] = "..")
    THEN None
    ELSE Some(directory \o filename.parts)

\* mime_guess::guess_mime_type: by the extension of the last component
guess_mime_type(path) ==
    IF path # <<>> /\ path[Len(path)] = "a.txt" THEN "text/plain" ELSE "application/octet-stream"

\* helpers::send_from_directory_range
send_from_directory_range(directory, filename, as_attachment, range, build) ==
    LET filepath == safe_join(directory, filename)
    IN IF filepath # None
       THEN send_file_range(FileAt(filepath[1]), guess_mime_type(filepath[1]),
                            as_attachment, range, build)
       ELSE Err(HttpErr(404))

\* a view calls send_from_directory_range for a requested filename
SendFromDirectoryRange ==
    /\ input # None /\ output = None
    /\ output' = Some(send_from_directory_range(input[1].directory, input[1].filename,
                          input[1].as_attachment, input[1].range, input[1].build))
    /\ UNCHANGED <<appvars, input, views>>

DirectoryInit ==
    /\ Unused
    /\ input \in {Some([directory |-> ServedDirectory, filename |-> f, as_attachment |-> FALSE,
                         range |-> rg, build |-> "release"]) :
                     f \in Filenames, rg \in {None, Some(Bytes(<<FromTo(0, 0)>>))}}
    /\ output = None
    /\ views = None

DirectoryNext == SendFromDirectoryRange

DirectorySpec == DirectoryInit /\ [][DirectoryNext]_vars

(***************************************************************************)
(* C29.  For every requested filename, send_from_directory_range either    *)
(* fails with NotFound or serves a file that lies inside the directory;    *)
(* a filename that is absolute, is "..", or starts with "../" gives        *)
(* NotFound.                                                               *)
(***************************************************************************)
\* where the operating system finds the path the call opens
Resolved == Walk(<<>>, input[1].directory \o input[1].filename.parts)

Inside(directory, path) == path # None /\ IsPrefix(directory, path[1])

C29_Rejected ==
    (input # None /\ output # None) =>
       ((input[1].filename.absolute
         \/ (input[1].filename.parts # <<>> /\ input[1].filename.parts[1] = ".."))
        => output[1] = Err(HttpErr(404)))

C29_StaysInside ==
    (input # None /\ output # None) =>
       /\ output[1] = Err(HttpErr(404)) \/ Inside(input[1].directory, Resolved)
       /\ (input[1].filename.absolute
            \/ (input[1].filename.parts # <<>> /\ input[1].filename.parts[1] = ".."))
           => output[1] = Err(HttpErr(404))

(***************************************************************************)
(* The lazily computed views of a request: args(), form(), files()         *)
(* (wrappers.rs).  A query string is the sequence of its key/value pairs,  *)
(* a body the sequence of its parts; a LazyCell is an Option.  The record  *)
(* of a request also counts the parses of the query string and the         *)
(* decodings of the body, and keeps what each view returned first and what *)
(* the latest call returned.                                               *)
(***************************************************************************)
\* calls of the three views on one request
MaxCalls == 4

\* MultiDict::new
MultiDict_new == [k \in {} |-> <<>>]

\* MultiDict::add
MultiDict_add(d, key, value) ==
    IF key \in DOMAIN d THEN [d EXCEPT ![key] = Append(@, value)]
    ELSE (key :> <<value>>) @@ d

RECURSIVE AddAll(_, _)
\* the loops `for (k, v) in pairs { dict.add(k, v) }`
AddAll(d, pairs) ==
    IF pairs = <<>> THEN d
    ELSE AddAll(MultiDict_add(d, Head(pairs)[1], Head(pairs)[2]), Tail(pairs))

\* the parts of a body
Field(name, value) == [name |-> name, value |-> value, file |-> FALSE]

FilePart(name, value) == [name |-> name, value |-> value, file |-> TRUE]

PairsOf(parts) == [i \in 1..Len(parts) |-> <<parts[i].name, parts[i].value>>]

\* the requests: query strings, content types, bodies
QueryStrings == {None, Some(<<>>), Some(<<<<"a", "1">>>>), Some(<<<<"a", "1">>, <<"a", "2">>>>)}

ContentTypes == {None, Some("application/x-www-form-urlencoded"),
                 Some("multipart/form-data"), Some("text/plain")}

FieldBodies == {<<>>, <<Field("f", "x")>>, <<Field("f", "x"), Field("f", "y")>>}

FileBodies == {<<Field("f", "x"), FilePart("u", "data")>>}

\* Request::new: the cells are empty
NewViews(query_string, content_type, body) ==
    [query_string |-> query_string, content_type |-> content_type, body |-> body,
     args |-> None, form |-> None, files |-> None,
     parses |-> 0, decodes |-> 0, calls |-> 0,
     first |-> [args |-> None, form |-> None, files |-> None],
     last |-> None]

\* FormDataParser::parse: the form, the files, and what is left of the body
FormDataParser_parse(body, mimetype) ==
    IF mimetype = "application/x-www-form-urlencoded"
    THEN [form |-> AddAll(MultiDict_new, PairsOf(body)), files |-> MultiDict_new, body |-> <<>>]
    ELSE IF mimetype = "multipart/form-data"
    THEN [form |-> AddAll(MultiDict_new, PairsOf(SelectSeq(body, LAMBDA p : ~p.file))),
          files |-> AddAll(MultiDict_new, PairsOf(SelectSeq(body, LAMBDA p : p.file))),
          body |-> <<>>]
    ELSE [form |-> MultiDict_new, files |-> MultiDict_new, body |-> body]

\* load_form_data without the test of the form cell
load_form_data_Again(v) ==
    IF v.content_type # None
    THEN LET r == FormDataParser_parse(v.body, v.content_type[1])
         IN [v EXCEPT !.form = Some(r.form), !.files = Some(r.files),
                      !.body = r.body, !.decodes = @ + 1]
    ELSE [v EXCEPT !.form = Some(MultiDict_new), !.files = Some(MultiDict_new)]

\* Request::load_form_data
load_form_data(v) ==
    IF v.form # None THEN v
    ELSE IF v.content_type # None
    THEN LET r == FormDataParser_parse(v.body, v.content_type[1])
         IN [v EXCEPT !.form = Some(r.form), !.files = Some(r.files),
                      !.body = r.body, !.decodes = @ + 1]
    ELSE [v EXCEPT !.form = Some(MultiDict_new), !.files = Some(MultiDict_new)]

\* Request::args parsing the query string at every call
Request_args_Again(v) ==
    [v EXCEPT !.args = Some(IF v.query_string # None
                            THEN AddAll(MultiDict_new, v.query_string[1])
                            ELSE MultiDict_new),
              !.parses = IF v.query_string # None THEN @ + 1 ELSE @]

\* Request::args: the cell is filled when it is empty
Request_args(v) ==
    IF v.args # None THEN v
    ELSE [v EXCEPT !.args = Some(IF v.query_string # None
                                 THEN AddAll(MultiDict_new, v.query_string[1])
                                 ELSE MultiDict_new),
                   !.parses = IF v.query_string # None THEN @ + 1 ELSE @]

\* a call returned `value` for the view `view`
Returned(v, view, value) ==
    [v EXCEPT !.calls = @ + 1,
              !.last = Some([view |-> view, value |-> value]),
              !.first = IF @[view] = None THEN [@ EXCEPT ![view] = Some(value)] ELSE @]

\* a hook or view calls request.args()
CallArgs ==
    /\ views # None /\ views[1].calls < MaxCalls
    /\ LET v == Request_args(views[1])
       IN views' = Some(Returned(v, "args", v.args[1]))
    /\ UNCHANGED <<appvars, input, output>>

\* a hook or view calls request.form()
CallForm ==
    /\ views # None /\ views[1].calls < MaxCalls
    /\ LET v == load_form_data(views[1])
       IN views' = Some(Returned(v, "form", v.form[1]))
    /\ UNCHANGED <<appvars, input, output>>

\* a hook or view calls request.files()
CallFiles ==
    /\ views # None /\ views[1].calls < MaxCalls
    /\ LET v == load_form_data(views[1])
       IN views' = Some(Returned(v, "files", v.files[1]))
    /\ UNCHANGED <<appvars, input, output>>

ViewsInit ==
    /\ Unused
    /\ input = None
    /\ output = None
    /\ views \in {Some(NewViews(q, ct, b)) :
                     q \in QueryStrings, ct \in ContentTypes, b \in FieldBodies}
                 \cup {Some(NewViews(q, ct, b)) :
                     q \in QueryStrings, ct \in ContentTypes \ {Some("application/x-www-form-urlencoded")},
                     b \in FileBodies}

ViewsNext ==
    \/ CallArgs
    \/ CallForm
    \/ CallFiles

ViewsSpec == ViewsInit /\ [][ViewsNext]_vars

(***************************************************************************)
(* C30.  Over any sequence of calls of args(), form() and files() on one   *)
(* request, the query string is parsed at most once and the body is        *)
(* decoded at most once (exactly once when there is something to compute   *)
(* and the cell is filled); the form cell is filled if and only if the     *)
(* files cell is; a cell once filled keeps its value, and every call       *)
(* returns what the first call of that view returned.                      *)
(***************************************************************************)
C30_Once ==
    views # None =>
       LET v == views[1]
       IN /\ v.parses <= 1 /\ v.decodes <= 1
          /\ v.parses = (IF v.args # None /\ v.query_string # None THEN 1 ELSE 0)
          /\ v.decodes = (IF v.form # None /\ v.content_type # None THEN 1 ELSE 0)
          /\ (v.form = None) <=> (v.files = None)
          /\ v.first.args # None => v.first.args = v.args
          /\ v.first.form # None => v.first.form = v.form
          /\ v.first.files # None => v.first.files = v.files
          /\ v.last # None => v.first[v.last[1].view] = Some(v.last[1].value)

C30_Kept ==
    (views # None /\ views' # None) =>
       /\ views[1].args # None => views'[1].args = views[1].args
       /\ views[1].form # None => views'[1].form = views[1].form
       /\ views[1].files # None => views'[1].files = views[1].files

C30_LazyViewsOnce == [](C30_Once) /\ [][C30_Kept]_vars

\* every view was called, one of them again, on a request with two values
\* of one query key and a multipart body holding a file
C30_Witness ==
    /\ views # None /\ views[1].calls = MaxCalls
    /\ views[1].parses = 1 /\ views[1].decodes = 1
    /\ views[1].first.args # None /\ views[1].first.form # None /\ views[1].first.files # None
    /\ views[1].args = Some(("a" :> <<"1", "2">>))
    /\ views[1].files = Some(("u" :> <<"data">>))
    /\ views[1].body = <<>>

(***************************************************************************)
(* C31.  The stages of one request occur in the order bind, preprocess,    *)
(* dispatch, error recovery, postprocess, top-level failure handling,      *)
(* teardown: the calls of the log never go back to an earlier stage; a     *)
(* before-request hook is called only once the routing outcome is stored;  *)
(* the view only after every before-request hook returned nothing; an      *)
(* error handler only for the error preprocess or dispatch produced; an    *)
(* after-request hook only on an existing response; a teardown hook only   *)
(* after all after-request hooks, or the top-level failure handling, are   *)
(* over.                                                                   *)
(***************************************************************************)
StageRank(stage) ==
    CASE stage = "preprocess" -> 1 [] stage = "dispatch" -> 2 [] stage = "recover" -> 3
      [] stage = "postprocess" -> 4 [] stage = "toplevel" -> 5 [] stage = "teardown" -> 6

\* exactly one routing outcome is stored on the request
OutcomeStored ==
    /\ req # None
    /\ Cardinality({x \in {"rule", "redirect", "error"} :
          \/ x = "rule" /\ req[1].url_rule # None
          \/ x = "redirect" /\ req[1].routing_redirect # None
          \/ x = "error" /\ req[1].routing_error # None}) = 1

C31_StageOrder ==
    /\ \A i \in 1..Len(log), j \in 1..Len(log) :
          i < j => StageRank(log[i].stage) <= StageRank(log[j].stage)
    /\ log # <<>> => OutcomeStored
    /\ Calls("dispatch") # <<>> =>
          /\ Len(Calls("preprocess")) = Len(preprocess_request(app, req[1]))
          /\ \A i \in 1..Len(Calls("preprocess")) : Calls("preprocess")[i].ret = None
    /\ \A i \in 1..Len(Calls("recover")) :
          /\ result # None /\ ~result[1].ok
          /\ Calls("recover")[i].arg = Some(result[1].val)
    /\ Calls("postprocess") # <<>> => (rv # None /\ rv[1].ok)
    /\ Calls("toplevel") # <<>> => (rv # None /\ ~rv[1].ok /\ Calls("postprocess") = <<>>)
    /\ Calls("teardown") # <<>> =>
          /\ response # None
          /\ IF err = None
             THEN Len(Calls("postprocess")) = Len(process_response(app, req[1]))
             ELSE /\ Calls("toplevel") # <<>>
                  /\ Calls("toplevel")[1].f.kind = "log_error"

\* a request was handled to its end with a call in each of preprocess,
\* dispatch, error recovery and postprocess
C31_Witness ==
    /\ pc = "done"
    /\ Calls("preprocess") # <<>> /\ Calls("dispatch") # <<>> /\ Calls("recover") # <<>>
    /\ Calls("postprocess") # <<>>

\* a request whose error no handler turned into a response: the top-level
\* handling ran before a teardown hook
C31_WitnessTopLevel ==
    /\ pc = "done" /\ Calls("toplevel") # <<>> /\ Calls("teardown") # <<>>
    /\ Calls("preprocess") # <<>>

(***************************************************************************)
(* C32.  Once full_dispatch_request is over: when the result after error   *)
(* recovery is a response (from a view, from a before-request hook, from   *)
(* an error handler, or the default rendering of an HTTP error), every     *)
(* after-request hook of the owning module and of the application was      *)
(* called on it, once; when it is an error, no after-request hook was      *)
(* called and none touched the response that top-level failure handling    *)
(* made.                                                                   *)
(***************************************************************************)
C32_AfterHooksOnResponses ==
    pc \in {"teardown", "done"} =>
       IF rv[1].ok
       THEN /\ Funcs(Current, "postprocess") = process_response(app, req[1])
            /\ response[1].touched = process_response(app, req[1])
            /\ response[1] = [rv[1].val EXCEPT !.touched = response[1].touched]
            /\ Calls("toplevel") = <<>>
       ELSE /\ Calls("postprocess") = <<>>
            /\ response[1].touched = <<>>
            /\ Calls("toplevel") # <<>>

\* the response sent is the default rendering of a 404 and an after-request
\* hook touched it
C32_Witness ==
    /\ pc = "done" /\ rv[1].ok
    /\ response[1].by.kind = "default" /\ response[1].status_code = 404
    /\ response[1].touched # <<>>

\* a before-request hook's response was touched by an after-request hook
C32_WitnessHook ==
    /\ pc = "done" /\ response[1].by.kind = "before" /\ response[1].touched # <<>>

\* an error handler's response was touched by an after-request hook
C32_WitnessHandler ==
    /\ pc = "done" /\ response[1].by.kind \in {"http", "user"}
    /\ Calls("recover") # <<>> /\ response[1].touched # <<>>

\* a view's response was touched by an after-request hook
C32_WitnessView ==
    /\ pc = "done" /\ response[1].by.kind = "view" /\ response[1].touched # <<>>

\* an unhandled error: the application has an after-request hook and the
\* response of the top-level handling was not touched
C32_WitnessTopLevel ==
    /\ pc = "done" /\ ~rv[1].ok /\ app.after_request_funcs # <<>>
    /\ response[1].touched = <<>>

(***************************************************************************)
(* C33.  Every teardown hook is called with the pipeline's final error     *)
(* when error recovery ended with an error, and with no error otherwise.   *)
(* Recovery ends with an error exactly for a user error that no handler is *)
(* registered for, the final error being that same error, and for an error *)
(* that an error handler returned, the final error being the returned one. *)
(* An HTTP error that a handler or the default rendering turned into a     *)
(* response gives the teardown hooks no error.                             *)
(***************************************************************************)
\* the error that the pipeline ended with after error recovery, if any
FinalError == IF rv # None /\ ~rv[1].ok THEN Some(rv[1].val) ELSE None

C33_TeardownError ==
    /\ \A i \in 1..Len(log) :
          log[i].stage = "teardown" => log[i].arg = FinalError
    /\ (pc \in {"teardown", "done"}) =>
          LET R == Calls("recover")
              unhandled == /\ result[1].val.tag = "user"
                           /\ ExpectedHandler(result[1].val) = None
              returned == R # <<>> /\ ~R[Len(R)].ret[1].ok
          IN /\ err = FinalError
             /\ (FinalError # None) <=> (~result[1].ok /\ (unhandled \/ returned))
             /\ (~result[1].ok /\ unhandled) => FinalError = Some(result[1].val)
             /\ (~result[1].ok /\ returned) => FinalError = Some(R[Len(R)].ret[1].val)
             /\ (~result[1].ok /\ result[1].val.tag = "http" /\ rv[1].ok) => err = None

\* an error handler returned an error other than the one it was called for,
\* and a teardown hook received the returned one
C33_Witness ==
    /\ pc = "done"
    /\ Calls("recover") # <<>> /\ ~Calls("recover")[1].ret[1].ok
    /\ Calls("recover")[1].ret[1].val # result[1].val
    /\ Calls("teardown") # <<>>
    /\ Calls("teardown")[1].arg = Some(Calls("recover")[1].ret[1].val)

\* an unhandled user error reached a teardown hook
C33_WitnessUnhandled ==
    /\ pc = "done" /\ Calls("recover") = <<>>
    /\ Calls("teardown") # <<>> /\ Calls("teardown")[1].arg = Some(result[1].val)

\* the default rendering of an HTTP error: the teardown hook got no error
C33_WitnessRendered ==
    /\ pc = "done" /\ ~result[1].ok /\ result[1].val.tag = "http"
    /\ response[1].by.kind = "default"
    /\ Calls("teardown") # <<>> /\ Calls("teardown")[1].arg = None

(***************************************************************************)
(* C34.  When a before-request hook returns an error, no view function is  *)
(* called and the error goes through error recovery as an error of         *)
(* dispatch does: the handler registered for its status code or its        *)
(* description by the owning module is called with it, else the            *)
(* application's; with no handler an HTTP error is rendered by default and *)
(* a user error stays the pipeline's error.                                *)
(***************************************************************************)
C34_HookErrorRecovered ==
    \A i \in 1..Len(log) :
       (log[i].stage = "preprocess" /\ log[i].ret # None /\ ~log[i].ret[1].ok) =>
          LET e == log[i].ret[1].val
              h == ExpectedHandler(e)
              R == Calls("recover")
              \* the result of error recovery, before any after-request hook
              recovered == IF rv[1].ok THEN Ok([rv[1].val EXCEPT !.touched = <<>>])
                           ELSE rv[1]
          IN /\ result = Some(Err(e))
             /\ Calls("dispatch") = <<>>
             /\ pc \in {"recover", "postprocess", "toplevel", "teardown", "done"}
             /\ pc = "recover" => R = <<>>
             /\ pc # "recover" =>
                   IF h = None
                   THEN /\ R = <<>>
                        /\ recovered = (IF e.tag = "http" THEN Ok(to_response(e)) ELSE Err(e))
                   ELSE /\ Len(R) = 1
                        /\ R[1].f = h[1]
                        /\ R[1].arg = Some(e)
                        /\ recovered = R[1].ret[1]

\* a before-request hook of the application returned an HTTP error on a
\* module's endpoint, and the module's handler for it answered
C34_Witness ==
    /\ pc = "done" /\ HasOwner
    /\ \E i \in 1..Len(log) :
          /\ log[i].stage = "preprocess" /\ log[i].f.owner = AppOwner
          /\ log[i].ret # None /\ ~log[i].ret[1].ok /\ log[i].ret[1].val.tag = "http"
    /\ Calls("recover") # <<>> /\ Calls("recover")[1].f.owner = OwnerName
    /\ response[1].by = Calls("recover")[1].f

\* a before-request hook's user error, handled by the application
C34_WitnessUser ==
    /\ pc = "done"
    /\ \E i \in 1..Len(log) :
          /\ log[i].stage = "preprocess"
          /\ log[i].ret # None /\ ~log[i].ret[1].ok /\ log[i].ret[1].val.tag = "user"
    /\ Calls("recover") # <<>> /\ Calls("recover")[1].f.owner = AppOwner

(***************************************************************************)
(* C35.  Every response that send_file_range returns carries a             *)
(* Content-Length equal to the number of bytes its body producer yields,   *)
(* and, when it carries a Content-Range, first <= last < instance length:  *)
(* for spans inside the file, for a from-to span that ends at or beyond    *)
(* the end of the file, for an open-ended span that starts at or beyond    *)
(* it, and for an empty file.                                              *)
(***************************************************************************)
C35_LengthAndBounds ==
    (Served /\ output[1].ok) =>
       LET h == output[1].val.headers
       IN /\ h["Content-Length"] = Len(output[1].val.body[1])
          /\ "Content-Range" \in DOMAIN h =>
                /\ h["Content-Range"].first <= h["Content-Range"].last
                /\ h["Content-Range"].last < h["Content-Range"].instance_length

\* the same for the spans that lie inside a file that is not empty
C35_InsideFile ==
    (Served /\ output[1].ok /\ input[1].range # None /\ 1 <= FileLen
       /\ CASE TheSpan.kind = "FromTo" -> TheSpan.a <= TheSpan.b /\ TheSpan.b < FileLen
            [] TheSpan.kind = "AllFrom" -> TheSpan.a < FileLen
            [] OTHER -> 1 <= TheSpan.a /\ TheSpan.a <= FileLen) =>
       LET h == output[1].val.headers
       IN /\ h["Content-Length"] = Len(output[1].val.body[1])
          /\ h["Content-Range"].first <= h["Content-Range"].last
          /\ h["Content-Range"].last < h["Content-Range"].instance_length

\* bytes=2-11 of a 10-byte file: a 206 whose body has the 8 bytes 2..9
C35_BeyondEnd ==
    /\ Served /\ SingleSpan("FromTo") /\ FileLen = 10 /\ TheSpan = FromTo(2, 11)
    /\ output[1].ok /\ Len(output[1].val.body[1]) = 8

(***************************************************************************)
(* Configurations that build several module instances, two of them under   *)
(* one name, route on them, give them a static folder, record              *)
(* application-scoped registrations on them and register them.             *)
(***************************************************************************)
\* two instances built under one name, nothing registered yet
CollisionInit ==
    /\ phase = "setup"
    /\ app = Pencil_new
    /\ mods = [id \in {"m1", "m2"} |-> Module_new(ModName(id))]
    /\ pc = "idle"
    /\ req = None
    /\ todo = <<>>
    /\ result = None
    /\ rv = None
    /\ err = None
    /\ response = None
    /\ log = <<>>
    /\ parked = Idle
    /\ input = None
    /\ output = None
    /\ views = None

CollisionNext ==
    \/ SetupModRoute
    \/ ModStaticFolder
    \/ ModStaticUrlPath
    \/ ModBeforeAppRequest
    \/ ModAppHttpErrorHandler
    \/ RegisterModule

CollisionSpec == CollisionInit /\ [][CollisionNext]_vars

(***************************************************************************)
(* C36.  A register call that is rejected because the module's name is     *)
(* already in the module map changes nothing of the application: its       *)
(* routing table, its view registry, its hook lists, its error-handler     *)
(* maps and its module map are what they were, and none of the rejected    *)
(* module's deferred routes or deferred functions, nor its static route,   *)
(* was applied.                                                            *)
(***************************************************************************)
\* a step that aborts the configuration while an instance is pending under
\* a registered name (the rejected register call is such a step)
C36_RejectedStep ==
    (phase = "setup" /\ phase' = "aborted" /\ (\E id \in DOMAIN mods : Colliding(id))) =>
       /\ app'.url_map = app.url_map
       /\ app'.view_functions = app.view_functions
       /\ app'.before_request_funcs = app.before_request_funcs
       /\ app'.after_request_funcs = app.after_request_funcs
       /\ app'.teardown_request_funcs = app.teardown_request_funcs
       /\ app'.http_error_handlers = app.http_error_handlers
       /\ app'.user_error_handlers = app.user_error_handlers
       /\ app'.modules = app.modules
       /\ mods' = mods

\* the static route of a name is in the routing table only when the
\* instance registered under that name had a static folder and a static
\* URL path, whatever the rejected instances had
C36_NothingApplied ==
    \A r \in app.url_map, id \in DOMAIN mods :
       r.endpoint = ModName(id) \o <<Dot, "s", "t", "a", "t", "i", "c">> =>
          /\ ModName(id) \in DOMAIN app.modules
          /\ app.modules[ModName(id)].static_folder # None
          /\ app.modules[ModName(id)].static_url_path # None

C36_CollisionFrame == [](C36_NothingApplied) /\ [][C36_RejectedStep]_vars

\* the rejected instance had a deferred route, a static route to add and a
\* recorded before-request hook, and the application has no hook
C36_Witness ==
    /\ phase = "aborted"
    /\ SetupOps = MaxSetup
    /\ \E id \in DOMAIN mods :
          /\ Colliding(id)
          /\ mods[id].deferred_routes # <<>>
          /\ mods[id].deferred_functions # <<>>
          /\ mods[id].deferred_functions[1].f.kind = "before_app"
          /\ mods[id].static_folder # None /\ mods[id].static_url_path # None
          /\ app.modules[mods[id].name].static_folder = None
    /\ app.before_request_funcs = <<>>

(***************************************************************************)
(* Module names: configurations that build one module under any name over  *)
(* a letter and the dot, route on it and register it, and the requests     *)
(* that are then matched.                                                  *)
(***************************************************************************)
\* Module::new(name): `input` keeps the name the module was built under
NamesInit ==
    /\ phase = "setup"
    /\ app = Pencil_new
    /\ \E n \in UNION {[1..k -> {"m", Dot}] : k \in 0..MaxNameLen} :
          /\ mods = [id \in ModuleIds |-> Module_new(n)]
          /\ input = Some(n)
    /\ pc = "idle"
    /\ req = None
    /\ todo = <<>>
    /\ result = None
    /\ rv = None
    /\ err = None
    /\ response = None
    /\ log = <<>>
    /\ parked = Idle
    /\ output = None
    /\ views = None

NamesNext ==
    \/ SetupModRoute
    \/ RegisterModule
    \/ Run
    \/ NewRequest
    \/ MatchRequest

NamesSpec == NamesInit /\ [][NamesNext]_vars

(***************************************************************************)
(* C37.  Owning-module resolution inverts namespacing: when a request is   *)
(* matched to a rule that a module built under the name n registered for   *)
(* its endpoint e (full endpoint n.e, e without a dot), with n any name,   *)
(* names that contain dots included, the owning module name of the request *)
(* is exactly n and the module looked up is the one registered under n.    *)
(***************************************************************************)
C37_InvertsNamespacing ==
    (req # None /\ req[1].url_rule # None) =>
       LET n == input[1]
           full == req[1].url_rule[1].endpoint
           e == SubSeq(full, Len(n) + 2, Len(full))
       IN /\ full = n \o <<Dot>> \o e
          /\ ~Contains(e, Dot)
          /\ module_name(req[1]) = Some(n)
          /\ get_module(app, module_name(req[1])) # None
          /\ get_module(app, module_name(req[1]))[1].name = n
          /\ DOMAIN app.modules = {n}

\* a request matched to the endpoint w of the module built under the name m.m
C37_Witness ==
    /\ pc = "preprocess"
    /\ input = Some(<<"m", Dot, "m">>)
    /\ req[1].url_rule # None
    /\ req[1].url_rule[1].endpoint = <<"m", Dot, "m", Dot, "w">>
    /\ module_name(req[1]) = Some(<<"m", Dot, "m">>)

\* the same for a name that ends with a dot and for the empty name
C37_WitnessTrailingDot ==
    /\ pc = "preprocess" /\ input = Some(<<"m", Dot>>)
    /\ req[1].url_rule # None /\ module_name(req[1]) = Some(<<"m", Dot>>)

C37_WitnessEmptyName ==
    /\ pc = "preprocess" /\ input = Some(<<>>)
    /\ req[1].url_rule # None /\ module_name(req[1]) = Some(<<>>)

====
